---- MODULE Spec2Model ----
(***************************************************************************)
(* State-machine model of agentcost.batcher.HybridBatcher: the live queue, *)
(* the retry buffer, the statistics, the batcher lock, the client threads  *)
(* calling add / flush / retry_failed_batches / shutdown, the periodic     *)
(* flush thread and the delivery threads spawned by _flush_locked.         *)
(*                                                                         *)
(* Two more specifications model agentcost.http_client: LimiterSpec, the   *)
(* RateLimiter (its window of admission times and its lock, under a        *)
(* discrete clock) with the threads that enter send_events concurrently    *)
(* up to the return of wait_and_acquire, and SendEventsSpec, whole         *)
(* send_events calls with the outcomes of the HTTP post.                   *)
(*                                                                         *)
(* PricingSpec models agentcost.cost_calculator: the DynamicPricingManager *)
(* (its cache, last-fetch time and fetch flags) and the tiered lookup      *)
(* CostCalculator._get_model_pricing over model names that are strings     *)
(* of characters, its calls running one at a time. ManagerSpec has threads *)
(* calling get_pricing and force_fetch concurrently, with the manager's    *)
(* lock and the request of _fetch_pricing in flight. CostSpec applies      *)
(* calculate_cost and get_cost_breakdown to pricing entries and token      *)
(* counts, in integer units.                                               *)
(*                                                                         *)
(* TrackerSpec models agentcost.tracker and agentcost.interceptor: the     *)
(* configuration init() installs, the agent(...) scopes of concurrent      *)
(* threads, and the four wrapped entry points of the interceptor with the  *)
(* event each passes to the event callback. MetadataSpec has the           *)
(* metadata(...) scopes of concurrent threads.                             *)
(***************************************************************************)
EXTENDS Integers, Sequences, FiniteSets, TLC

\* ---------------------------------------------------------------- bounds
MaxEvents == 2          \* number of add calls explored
MaxRetryBatches == 1    \* max_retry_batches given to the constructor
MaxRequests == 2        \* largest max_requests given to RateLimiter
WindowTicks == 2        \* window_seconds, in clock ticks
MaxClock == 3           \* last clock tick explored
MaxPricingClock == 4    \* last tick of the pricing manager's clock explored
MaxTokens == 3          \* largest small token count given to the cost functions
MaxRetries == 2         \* largest max_retries given to AgentCostHTTPClient

\* ---------------------------------------------------------------- threads
NoThread == -1
Timer == 0
Clients == {1, 2}
SenderTid(i) == Cardinality(Clients) + i

Events == 1..MaxEvents
BatchSizes == {1, 2}
CallbackModes == {"always_true", "any"}

\* ---------------------------------------------------------------- http_client
\* Threads that call send_events (the batcher's flush_callback).
Callers == {1, 2, 3}

\* The batcher functions that invoke flush_callback.
Sites == {"_send_batch", "retry_failed_batches", "shutdown"}

\* The callers of the specification of whole send_events calls.
SendCallers == {1, 2}

\* HTTP status codes a server answers with, and `status_forcelist` of the Retry
\* strategy mounted on the session.
StatusCodes == {200, 300, 404, 503}
StatusForcelist == {429, 500, 502, 503, 504}

\* What the response body holds: JSON with status "ok", JSON with another status,
\* JSON without a status field, or text that is not JSON.
Bodies == {"ok", "error", "missing", "not_json"}

\* Outcomes of `self.session.post(...)` as the network produces them.
Responses ==
    {[kind |-> "response", status |-> st, body |-> b] : st \in StatusCodes, b \in Bodies}
        \cup {[kind |-> k, status |-> 0, body |-> "none"] : k \in {"timeout", "connection_error"}}
NoResponse == [kind |-> "none", status |-> 0, body |-> "none"]

\* Outcomes of one HTTP attempt of the adapter mounted on the session: an
\* answer, also a 413 one, with or without a Retry-After header, or a failure at
\* the connection level.
\* The Retry strategy is made without `respect_retry_after_header=False`, so it
\* also retries an answer that has the header and a status of
\* Retry.RETRY_AFTER_STATUS_CODES while its total is not 0.
AttemptResponses ==
    {[kind |-> "response", status |-> st, body |-> b] :
         st \in StatusCodes \cup {413}, b \in {"ok", "error"}}
        \cup {[kind |-> k, status |-> 0, body |-> "none"] : k \in {"timeout", "connection_error"}}
AttemptOutcomes ==
    {[response |-> r, retry_after |-> h] :
         r \in AttemptResponses, h \in BOOLEAN} \
    {[response |-> r, retry_after |-> TRUE] :
         r \in {x \in AttemptResponses : x.kind # "response"}}
RetryAfterStatusCodes == {413, 429, 503}

\* ---------------------------------------------------------------- cost_calculator
\* Model names and table keys are strings, as sequences of characters.
Str(a) == <<a>>
Str2(a, b) == <<a, b>>

\* The model names looked up.
ModelNames ==
    {Str("a"), Str("b"), Str("A"), Str2("a", "b"), Str2("A", "b"), Str2("b", "a"), Str2("b", "A")}

\* A pricing table is a dict: a sequence of entries with distinct keys, in
\* insertion order. The price of an entry is `{'input': .., 'output': ..}`, and
\* names the tier and the key it came from.
Entry(tier, key) ==
    [key |-> key, price |-> [tier |-> tier, key |-> key, input |-> 1, output |-> 2]]

\* `{'input': 0.0, 'output': 0.0}`.
ZeroPricing == [tier |-> "zero", key |-> <<>>, input |-> 0, output |-> 0]

\* config.DEFAULT_PRICING, cut down to two keys: one in lower case and one with
\* an upper-case character.
DEFAULT_PRICING == <<Entry("static", Str2("a", "b")), Entry("static", Str("A"))>>

\* The custom_pricing maps given to CostCalculator and to AgentCostConfig.
CalculatorCustoms == {<<>>, <<Entry("calculator", Str2("a", "b"))>>}
ConfigCustoms == {<<>>, <<Entry("config", Str("b"))>>}

\* get_config(): None before init, else a configuration with or without base_url.
NoConfig == [set |-> FALSE, base_url |-> "", custom_pricing |-> <<>>]
Configs ==
    {NoConfig} \cup {[set |-> TRUE, base_url |-> u, custom_pricing |-> c] :
                         u \in {"", "url"}, c \in ConfigCustoms}

\* Pricing maps update_pricing is given.
RemoteTables ==
    {<<Entry("remote", Str("b"))>>,
     <<Entry("remote", Str("a")), Entry("remote", Str2("a", "b"))>>}

\* The 'pricing' map of a 200 answer of the backend, as parsed from JSON: per
\* model a `prices` object in which either field may be absent.
RawEntry(key, prices) == [key |-> key, prices |-> prices]
PricingResponses ==
    {<<>>,
     <<RawEntry(Str("b"), [input |-> 1, output |-> 2])>>,
     <<RawEntry(Str("a"), [input |-> 1]), RawEntry(Str2("a", "b"), [output |-> 2])>>}

\* Outcomes of the `requests.get` of _fetch_pricing: a 200 answer with a pricing
\* map (possibly empty), or a failure (another status, or an exception).
FetchOutcomes ==
    {[ok |-> TRUE, pricing |-> p] : p \in PricingResponses}
        \cup {[ok |-> FALSE, pricing |-> <<>>]}

\* `_last_fetch = None`, and lastModel when no lookup has just returned.
NoFetch == -1
NoModel == <<>>

\* The threads that call get_pricing and force_fetch concurrently, and gret of
\* a thread whose get_pricing has not returned yet.
Fetchers == {1, 2}
NoTable == <<[key |-> <<>>, price |-> ZeroPricing]>>

\* looker when no lookup is in its loop. In the loop it has the model, whether
\* the table get_pricing returned is the cache object itself (else it is
\* DEFAULT_PRICING), the position of the iterator, and the size of the table
\* when the iterator was made.
NoLooker == [at |-> "idle", model |-> <<>>, aliased |-> FALSE, pos |-> 0, used |-> 0]

\* lastResult of a lookup that raised `RuntimeError: dictionary changed size
\* during iteration`.
Raised == [tier |-> "RuntimeError", key |-> <<>>]

\* fetchResult when the call that just returned made no request.
NoRequest == [made |-> FALSE, ok |-> FALSE, pricing |-> <<>>, before |-> <<>>]

\* `self._fetch_interval = 86400` and the `time.sleep(300)` of reset_flag, in
\* ticks of the pricing clock (one tick is 300 s; the interval is kept longer
\* than the cool-down).
FetchIntervalTicks == 2
CooldownTicks == 1

\* Rates are integers in units of 1e-6 USD per 1000 tokens, so that a token
\* count times a rate is a cost in units of 1e-9 USD; costs returned, rounded to
\* 8 decimal places, are integers in units of 1e-8 USD. The pricing entries the
\* cost functions are given: three of DEFAULT_PRICING (with its smallest rate,
\* 0.00005, and one that is not a multiple of 0.00001), a custom entry with
\* rates of 0.000004, and the entry of an unknown model.
Rates(model, input, output) == [model |-> model, input |-> input, output |-> output]
CostPricings ==
    {Rates("gpt-4", 30000, 60000),
     Rates("llama-3.1-8b-instant", 50, 80),
     Rates("gemini-1.5-flash", 75, 300),
     Rates("custom", 4, 4),
     Rates("unknown", 0, 0)}

\* The token counts given.
TokenCounts == 0..MaxTokens \cup {500, 1000}

\* costArgs before any call, and a field of costOut the call does not return.
NoCall == [fn |-> "none", pricing |-> Rates("unknown", 0, 0), input_tokens |-> 0, output_tokens |-> 0]
NoCost == -1

\* ---------------------------------------------------------------- tracker, interceptor
\* The threads that use the tracker's scopes and make tracked calls.
Scopers == {1, 2}

\* None, or the empty string: what `if explicit:` and `if ctx_name:` take as
\* absent.
NoName == ""
AgentNames == {"router", "writer"}

\* `default_agent_name` as given to init(); "default" is its default.
DefaultNames == {"default", "main"}

\* `global_metadata` is a dict: a function from the keys to a value, NoValue
\* for an absent key. init() is given no metadata or one entry; the
\* metadata(...) scope of thread t has the one key ScopeKey(t), with the value
\* ScopeValue(t): the scopes of different threads have different keys.
MetaKeys == {"conversation_id", "user_id"}
NoValue == "absent"
ScopeKey(t) == IF t = 1 THEN "conversation_id" ELSE "user_id"
ScopeValue(t) == IF t = 1 THEN "conv-123" ELSE "user-456"
NoMetadata == [k \in MetaKeys |-> NoValue]
InitMetadata == {NoMetadata, [NoMetadata EXCEPT !["user_id"] = "init"]}

\* BaseChatModel's methods the interceptor wraps.
EntryPoints == {"invoke", "ainvoke", "stream", "astream"}

\* get_config() before init().
NoTrackerConfig ==
    [set |-> FALSE, enabled |-> TRUE, default_agent_name |-> "default",
     global_metadata |-> NoMetadata]

\* A thread outside every scope. Inside metadata(...) it has the snapshot
\* `old_metadata` and its kwargs; inside agent(...) the token of
\* `_agent_name_var.set(name)`, which holds the value before the set.
NoScope ==
    [meta |-> "out", old_metadata |-> NoMetadata, key |-> "none",
     agent |-> "out", name |-> NoName, token |-> NoName]

\* lastCall when the last step was not a tracked call.
NoTrackedCall ==
    [t |-> 0, entry |-> "none", explicit |-> NoName, ctx |-> NoName, enabled |-> FALSE,
     wrapped |-> "none", callback |-> "none", result |-> "none", events |-> <<>>]

VARIABLES
    batch_size,         \* HybridBatcher.batch_size
    max_retry_batches,  \* HybridBatcher.max_retry_batches
    cbMode,             \* behaviour of flush_callback: always True, or any outcome
    batch,              \* HybridBatcher._batch (live queue)
    failed_batches,     \* HybridBatcher._failed_batches (retry buffer)
    running,            \* HybridBatcher._running
    stats,              \* HybridBatcher._stats
    lock,               \* holder of HybridBatcher._lock, or NoThread
    pc,                 \* position of each client thread and of the periodic thread
    loc,                \* locals of each client thread and of the periodic thread
    senders,            \* delivery threads started by _flush_locked, in start order
    nextEvent,          \* id of the next event a client will add
    \* ---- history of the run (not program state)
    passCount,          \* per event: times it was passed to flush_callback (capped at 2)
    sdPassCount,        \* per event: times shutdown passed it to flush_callback (capped at 2)
    lateAdd,            \* an add call overlapped or followed the start of a shutdown call
    failLog,            \* batches given to _handle_failed_batch so far, in order, while
                        \* retry_failed_batches has never run (at most max_retry_batches + 1)
    retryEver,          \* retry_failed_batches has been entered
    firstFailed,        \* the batches waiting in the retry buffer or in a retry pass, in
                        \* the order their dispatch was first recorded as failed
    crashed,            \* threads ended by an exception that escaped
    cbTrue,             \* the batches for which flush_callback has returned True: their
                        \* number, and the number of events in them
    sdPre,              \* per client: it called shutdown, and the call began while
                        \* running, with no event passed to the callback yet and no add
                        \* under way
    sdChanged,          \* per client: the parts of the state its shutdown call changed
    \* ---- http_client
    max_requests,       \* RateLimiter.max_requests
    window_seconds,     \* RateLimiter.window_seconds (in ticks)
    requests,           \* RateLimiter._requests (admission times)
    rlLock,             \* holder of RateLimiter._lock, or NoThread
    clock,              \* time.time() (in ticks)
    hpc,                \* position of each thread calling send_events
    wake,               \* per caller: earliest tick at which its time.sleep ends
    callSite,               \* per caller: the batcher function that invoked the callback
    resp,               \* per caller: outcome of session.post, until send_events returns
    ret,                \* per caller: what send_events returned
    \* ---- history of the run (not program state)
    returns,            \* per tick: number of callers whose wait_and_acquire returned then
    acqLog,             \* the first max_requests + 1 acquire calls: time, wait, recorded
    \* ---- the session's retries
    max_retries,        \* max_retries given to _create_session
    retry_total,        \* per caller: `total` of the Retry object of its post
    \* ---- history of the run (not program state)
    attempts,           \* per caller: HTTP attempts its send_events call has made
    lastRetried,        \* per caller: the outcome (less the body) of the attempt last
                        \* retried
    \* ---- cost_calculator
    custom_pricing,     \* CostCalculator.custom_pricing
    cfg,                \* what get_config() returns: NoConfig or an AgentCostConfig
    pricing_cache,      \* DynamicPricingManager._pricing_cache
    last_fetch,         \* DynamicPricingManager._last_fetch (NoFetch is None)
    fetch_attempted,    \* DynamicPricingManager._fetch_attempted
    fetch_in_progress,  \* DynamicPricingManager._fetch_in_progress
    resetAt,            \* ticks at which the pending reset_flag threads end their sleep
    pclock,             \* time.time() as the pricing manager reads it (in ticks)
    \* ---- history of the run (not program state)
    lastModel,          \* the model of the _get_model_pricing call that just returned
    lastResult,         \* what that call returned
    fetchResult,        \* the request _fetch_pricing made in the call that just returned,
                        \* if it made one, its outcome, and the cache before the call
    lastFail,           \* time of the last failed request of _fetch_pricing, or NoFetch
    costArgs,           \* the last call of calculate_cost or get_cost_breakdown: the
                        \* pricing entry its lookup returned and the token counts
    costOut,            \* what that call returned
    looker,             \* a _get_model_pricing call in its loop over the dynamic table,
                        \* while update_pricing runs in other threads
    \* ---- threads calling the pricing manager concurrently
    mlock,              \* holder of DynamicPricingManager._lock, or NoThread
    gpc,                \* position of each thread calling get_pricing or force_fetch
    gret,               \* per thread: what its last get_pricing call returned
    \* ---- tracker, interceptor
    tracker_config,     \* AgentCostTracker._config, which is what get_config() returns
    agent_name_var,     \* per thread: the value of the context variable _agent_name_var
    scopes,             \* per thread: its metadata(...) and agent(...) scopes
    \* ---- history of the run (not program state)
    meta0,              \* global_metadata as init() installed it
    lastCall            \* the tracked call that just returned: its inputs, what the
                        \* wrapped call and the event callback did, what the
                        \* application got, and the events passed to the event callback

config == <<batch_size, max_retry_batches, cbMode>>
prog == <<batch, failed_batches, running, stats, lock, pc, loc, senders, nextEvent>>
hist == <<passCount, sdPassCount, lateAdd, failLog, retryEver, firstFailed, crashed, cbTrue, sdPre, sdChanged>>
prog_but_pc == <<batch, failed_batches, running, stats, lock, loc, senders, nextEvent>>
limiter == <<max_requests, window_seconds, requests, rlLock, clock>>
callers == <<hpc, wake, callSite, resp, ret>>
httpHist == <<returns, acqLog>>
session == <<max_retries, retry_total, attempts, lastRetried>>
httpVars == <<limiter, callers, httpHist, session>>
batcherVars == <<config, prog, hist>>
costVars == <<costArgs, costOut>>
calculator == <<custom_pricing, cfg, costVars>>
manager == <<pricing_cache, last_fetch, fetch_attempted, fetch_in_progress, resetAt, pclock>>
lastLookup == <<lastModel, lastResult>>
fetchHist == <<fetchResult, lastFail>>
lookups == <<lastLookup, fetchHist, looker>>
fetchers == <<mlock, gpc, gret>>
pricingVars == <<calculator, manager, lookups, fetchers>>
trackerVars == <<tracker_config, agent_name_var, scopes, meta0, lastCall>>
outsideBatcher == <<httpVars, pricingVars, trackerVars>>
outsideHttp == <<batcherVars, pricingVars, trackerVars>>
outsidePricing == <<batcherVars, httpVars, trackerVars>>
outsideTracker == <<batcherVars, httpVars, pricingVars>>
vars == <<batcherVars, httpVars, pricingVars, trackerVars>>

Threads == Clients \cup {Timer}

\* ---------------------------------------------------------------- helpers
Cap2(n) == IF n >= 2 THEN 2 ELSE n
SeqToSet(s) == {s[i] : i \in 1..Len(s)}
NoLocals == [events |-> <<>>, toRetry |-> <<>>, res |-> "none"]

\* Outcomes of one flush_callback invocation: returns True, returns False, raises.
CallbackOutcomes == IF cbMode = "always_true" THEN {"true"} ELSE {"true", "false", "raise"}

\* cbTrue after flush_callback(b) ended with res.
Returned(cnt, b, res) ==
    IF res = "true"
    THEN [events |-> cnt.events + Len(b), batches |-> cnt.batches + 1]
    ELSE cnt

\* passCount / sdPassCount after the events of b were passed to the callback once more.
Passed(cnt, b) == [e \in Events |-> IF e \in SeqToSet(b) THEN Cap2(cnt[e] + 1) ELSE cnt[e]]

\* ---------------------------------------------------------------- code, as operators
\* add: the size trigger `len(self._batch) >= self.batch_size`.
ShouldSizeFlush_OffByOne(b, bs) == Len(b) > bs
ShouldSizeFlush(b, bs) == Len(b) >= bs

\* _flush_locked: `if not self._batch: return`.
FlushLockedDispatches_Always(b) == TRUE
FlushLockedDispatches(b) == b # <<>>

\* _flush_locked: `self._batch = []` (what stays in the live queue).
FlushLockedRest_Keep(b) == b
FlushLockedRest(b) == <<>>

\* _flush_locked: `events_to_send = self._batch.copy()`.
FlushLockedEvents_Reversed(b) == [k \in 1..Len(b) |-> b[Len(b) + 1 - k]]
FlushLockedEvents(b) == b

\* _send_batch: `if success:`.
SendBatchSucceeded_NoRaise(res) == res # "raise"
SendBatchSucceeded(res) == res = "true"

\* _send_batch / retry_failed_batches / shutdown: `except Exception` around the
\* callback; TRUE would mean the exception leaves the function.
ExceptionEscapes(site, res) == FALSE

\* _handle_failed_batch: the retry buffer after a failed batch is handed to it.
HandleFailedBuffer_DropOldest(fb, events, cap) ==
    IF Len(fb) < cap THEN Append(fb, events) ELSE Append(Tail(fb), events)
HandleFailedBuffer(fb, events, cap) == IF Len(fb) < cap THEN Append(fb, events) ELSE fb

\* retry_failed_batches: `self._failed_batches.append(batch)` on a failed retry.
RetryRequeue(fb, b, cap) == Append(fb, b)

\* retry_failed_batches: `if self.flush_callback(batch):`.
RetrySucceeded(res) == res = "true"

\* shutdown: the two statistics lines follow the callback inside the try, so they
\* run unless the callback raised (the returned value is not looked at).
ShutdownCountsSent(res) == res # "raise"

\* shutdown: `self._batch = []` after the copy.
ShutdownRest_Keep(b) == b
ShutdownRest(b) == <<>>

\* _periodic_flush_loop: `if self._batch:` under the lock.
PeriodicShouldFlush_Inverted(b) == b = <<>>
PeriodicShouldFlush(b) == b # <<>>

\* _periodic_flush_loop: `if self._failed_batches:` (read without the lock).
PeriodicShouldRetry(fb) == fb # <<>>

\* _periodic_flush_loop: `while self._running:`.
PeriodicContinues(r) == r

\* shutdown: `self._flush_thread.join(timeout=2)` returns when the periodic thread
\* has ended or when the timeout expires, whichever is first.
JoinMayReturn(timerPc) == TRUE

\* ---------------------------------------------------------------- initial state
BatcherConstructed(bs, cb) ==
    /\ batch_size = bs
    /\ max_retry_batches = MaxRetryBatches
    /\ cbMode = cb
    /\ batch = <<>>
    /\ failed_batches = <<>>
    /\ running = TRUE
    /\ stats = [events_added |-> 0, events_sent |-> 0, batches_sent |-> 0, batches_failed |-> 0]
    /\ lock = NoThread
    /\ pc = [t \in Threads |-> IF t = Timer THEN "t_check" ELSE "idle"]
    /\ loc = [t \in Threads |-> NoLocals]
    /\ senders = <<>>
    /\ nextEvent = 1
    /\ passCount = [e \in Events |-> 0]
    /\ sdPassCount = [e \in Events |-> 0]
    /\ lateAdd = FALSE
    /\ failLog = <<>>
    /\ retryEver = FALSE
    /\ firstFailed = <<>>
    /\ crashed = {}
    /\ cbTrue = [events |-> 0, batches |-> 0]
    /\ sdPre = [t \in Clients |-> FALSE]
    /\ sdChanged = [t \in Clients |-> {}]

\* RateLimiter(max_requests=mr, window_seconds=w) and no send_events call yet.
HttpConstructed(mr, w) ==
    /\ max_requests = mr
    /\ window_seconds = w
    /\ requests = <<>>
    /\ rlLock = NoThread
    /\ clock = 0
    /\ hpc = [t \in Callers |-> "idle"]
    /\ wake = [t \in Callers |-> 0]
    /\ callSite = [t \in Callers |-> "none"]
    /\ resp = [t \in Callers |-> NoResponse]
    /\ ret = [t \in Callers |-> "none"]
    /\ returns = [k \in 0..MaxClock |-> 0]
    /\ acqLog = <<>>

\* `self.session = self._create_session(max_retries)`, and no attempt made yet.
SessionConstructed(r) ==
    /\ max_retries = r
    /\ retry_total = [t \in Callers |-> r]
    /\ attempts = [t \in Callers |-> 0]
    /\ lastRetried = [t \in Callers |-> NoResponse]

\* CostCalculator(custom_pricing=cp) with get_config() returning c, and the
\* module's DynamicPricingManager() as constructed.
PricingConstructed(cp, c) ==
    /\ custom_pricing = cp
    /\ cfg = c
    /\ pricing_cache = <<>>
    /\ last_fetch = NoFetch
    /\ fetch_attempted = FALSE
    /\ fetch_in_progress = FALSE
    /\ resetAt = {}
    /\ pclock = 1
    /\ lastModel = NoModel
    /\ lastResult = ZeroPricing
    /\ fetchResult = NoRequest
    /\ lastFail = NoFetch
    /\ looker = NoLooker
    /\ costArgs = NoCall
    /\ costOut = [input_cost |-> NoCost, output_cost |-> NoCost, total_cost |-> NoCost]
    /\ mlock = NoThread
    /\ gpc = [t \in Fetchers |-> "idle"]
    /\ gret = [t \in Fetchers |-> NoTable]

\* AgentCostTracker() as constructed, before init(), with no scope entered and
\* no tracked call made.
TrackerConstructed ==
    /\ tracker_config = NoTrackerConfig
    /\ agent_name_var = [t \in Scopers |-> NoName]
    /\ scopes = [t \in Scopers |-> NoScope]
    /\ meta0 = NoMetadata
    /\ lastCall = NoTrackedCall

Init ==
    /\ TrackerConstructed
    /\ \E bs \in BatchSizes, cb \in CallbackModes : BatcherConstructed(bs, cb)
    /\ HttpConstructed(MaxRequests, WindowTicks)
    /\ SessionConstructed(MaxRetries)
    /\ PricingConstructed(<<>>, NoConfig)

\* ---------------------------------------------------------------- lock
\* A `with self._lock:` block that calls nothing outside the batcher is one step:
\* it is entered when the lock is free and has released it when the step ends.
\* The lock is seen held only across shutdown's block, which calls flush_callback.
LockFree_Unchecked == TRUE
LockFree == lock = NoThread

\* A delivery thread as `threading.Thread(target=self._send_batch, args=(events,))`
\* starts it; `origin` is the caller of _flush_locked.
NewSender(events, origin) == [events |-> events, st |-> "start", res |-> "none", origin |-> origin]

\* _flush_locked(b) run by the lock holder on live-queue content b.
FlushLocked(b, origin) ==
    IF FlushLockedDispatches(b)
    THEN /\ batch' = FlushLockedRest(b)
         /\ senders' = Append(senders, NewSender(FlushLockedEvents(b), origin))
    ELSE /\ batch' = b
         /\ UNCHANGED senders

histRetry == <<failLog, retryEver, firstFailed>>
histSd == <<sdPre, sdChanged>>
histPass == <<passCount, sdPassCount, crashed, cbTrue>>

\* Some shutdown call has begun: it is about to clear _running, or has cleared it.
SdCalled == ~running \/ \E u \in Clients : pc[u] = "sd_set"

\* failLog after one more batch is given to _handle_failed_batch.
Logged(log, b) == IF ~retryEver /\ Len(log) <= max_retry_batches THEN Append(log, b) ELSE log

\* ---------------------------------------------------------------- add
\* A client's add(event) with the next fresh event: append, count, and the
\* size-triggered _flush_locked, all inside `with self._lock`.
Add(t) ==
    /\ pc[t] = "idle"
    /\ nextEvent <= MaxEvents
    /\ LockFree
    /\ LET b == Append(batch, nextEvent)
       IN IF ShouldSizeFlush(b, batch_size)
          THEN FlushLocked(b, "add")
          ELSE batch' = b /\ UNCHANGED senders
    /\ stats' = [stats EXCEPT !.events_added = @ + 1]
    /\ nextEvent' = nextEvent + 1
    /\ lateAdd' = (lateAdd \/ SdCalled)
    /\ UNCHANGED <<outsideBatcher, config, failed_batches, running, lock, pc, loc>>
    /\ UNCHANGED <<histRetry, histSd, histPass>>

\* ---------------------------------------------------------------- flush
\* A client's flush(): _flush_locked inside `with self._lock`.
Flush(t) ==
    /\ pc[t] = "idle"
    /\ LockFree
    /\ FlushLocked(batch, "flush")
    /\ UNCHANGED <<outsideBatcher, config, failed_batches, running, stats, lock, pc, loc, nextEvent, hist>>

\* ---------------------------------------------------------------- _send_batch
\* The delivery thread i invokes flush_callback(events) (it holds no lock).
SendCallback(i) ==
    /\ i \in 1..Len(senders)
    /\ senders[i].st = "start"
    /\ \E res \in CallbackOutcomes :
          /\ passCount' = Passed(passCount, senders[i].events)
          /\ cbTrue' = Returned(cbTrue, senders[i].events, res)
          /\ IF ExceptionEscapes("send", res)
             THEN /\ crashed' = crashed \cup {SenderTid(i)}
                  /\ senders' = [senders EXCEPT ![i].st = "done", ![i].origin = "none"]
             ELSE /\ crashed' = crashed
                  /\ senders' = [senders EXCEPT ![i].st = "got", ![i].res = res]
    /\ UNCHANGED <<outsideBatcher, config, batch, failed_batches, running, stats, lock, pc, loc, nextEvent>>
    /\ UNCHANGED <<histRetry, histSd, sdPassCount, lateAdd>>

\* `with self._lock:` count the batch as sent, or _handle_failed_batch(events).
SendRecord(i) ==
    /\ i \in 1..Len(senders)
    /\ senders[i].st = "got"
    /\ LockFree
    /\ IF SendBatchSucceeded(senders[i].res)
       THEN /\ stats' = [stats EXCEPT !.events_sent = @ + Len(senders[i].events),
                                      !.batches_sent = @ + 1]
            /\ UNCHANGED <<failed_batches, failLog, firstFailed>>
       ELSE /\ stats' = [stats EXCEPT !.batches_failed = @ + 1]
            /\ failed_batches' = HandleFailedBuffer(failed_batches, senders[i].events,
                                                    max_retry_batches)
            /\ failLog' = Logged(failLog, senders[i].events)
            /\ firstFailed' = IF failed_batches' # failed_batches
                              THEN Append(firstFailed, senders[i].events)
                              ELSE firstFailed
    /\ senders' = [senders EXCEPT ![i].st = "done", ![i].res = "none", ![i].origin = "none"]
    /\ UNCHANGED <<outsideBatcher, config, batch, running, lock, pc, loc, nextEvent>>
    /\ UNCHANGED <<retryEver, histSd, histPass, lateAdd>>

\* ---------------------------------------------------------------- retry_failed_batches
\* Within the package only _periodic_flush_loop calls retry_failed_batches, so it
\* runs on the periodic thread.
\* `for batch in batches_to_retry:` with `rest` still to retry; after the last one
\* the call returns to `while self._running`.
RetryLoopPc(rest) == IF rest = <<>> THEN "t_check" ELSE "r_call"

\* `batches_to_retry = self._failed_batches.copy(); self._failed_batches = []`.
RetryDrain ==
    /\ pc[Timer] = "r_lock"
    /\ LockFree
    /\ loc' = [loc EXCEPT ![Timer].toRetry = failed_batches]
    /\ failed_batches' = <<>>
    /\ retryEver' = TRUE
    /\ failLog' = <<>>
    /\ pc' = [pc EXCEPT ![Timer] = RetryLoopPc(failed_batches)]
    /\ UNCHANGED <<outsideBatcher, config, batch, running, stats, lock, senders, nextEvent>>
    /\ UNCHANGED <<histSd, histPass, lateAdd, firstFailed>>

\* `self.flush_callback(batch)` on the next batch to retry, outside the lock.
RetryCallback ==
    /\ pc[Timer] = "r_call"
    /\ \E res \in CallbackOutcomes :
          /\ passCount' = Passed(passCount, Head(loc[Timer].toRetry))
          /\ cbTrue' = Returned(cbTrue, Head(loc[Timer].toRetry), res)
          /\ IF ExceptionEscapes("retry", res)
             THEN /\ crashed' = crashed \cup {Timer}
                  /\ pc' = [pc EXCEPT ![Timer] = "crashed"]
                  /\ loc' = [loc EXCEPT ![Timer] = NoLocals]
             ELSE /\ crashed' = crashed
                  /\ pc' = [pc EXCEPT ![Timer] = "r_lock2"]
                  /\ loc' = [loc EXCEPT ![Timer].res = res]
    /\ UNCHANGED <<outsideBatcher, config, batch, failed_batches, running, stats, lock, senders, nextEvent>>
    /\ UNCHANGED <<histRetry, histSd, sdPassCount, lateAdd>>

\* `with self._lock:` count the retried batch as sent, or put it back.
RetryRecord ==
    /\ pc[Timer] = "r_lock2"
    /\ LockFree
    /\ LET b == Head(loc[Timer].toRetry)
           rest == Tail(loc[Timer].toRetry)
       IN /\ IF RetrySucceeded(loc[Timer].res)
             THEN /\ stats' = [stats EXCEPT !.events_sent = @ + Len(b), !.batches_sent = @ + 1]
                  /\ firstFailed' = SelectSeq(firstFailed, LAMBDA x : x # b)
                  /\ UNCHANGED failed_batches
             ELSE /\ failed_batches' = RetryRequeue(failed_batches, b, max_retry_batches)
                  /\ UNCHANGED <<stats, firstFailed>>
          /\ loc' = [loc EXCEPT ![Timer] = [NoLocals EXCEPT !.toRetry = rest]]
          /\ pc' = [pc EXCEPT ![Timer] = RetryLoopPc(rest)]
    /\ UNCHANGED <<outsideBatcher, config, batch, running, lock, senders, nextEvent>>
    /\ UNCHANGED <<failLog, retryEver, histSd, histPass, lateAdd>>

\* ---------------------------------------------------------------- _periodic_flush_loop
\* `while self._running:` (read without the lock); then the loop sleeps.
PeriodicCheck ==
    /\ pc[Timer] = "t_check"
    /\ pc' = [pc EXCEPT ![Timer] = IF PeriodicContinues(running) THEN "t_sleep" ELSE "t_exit"]
    /\ UNCHANGED <<outsideBatcher, config, batch, failed_batches, running, stats, lock, loc, senders, nextEvent, hist>>

\* `time.sleep(self.flush_interval)` ends; `with self._lock: if self._batch:
\* self._flush_locked()`.
PeriodicFlush ==
    /\ pc[Timer] = "t_sleep"
    /\ LockFree
    /\ IF PeriodicShouldFlush(batch)
       THEN FlushLocked(batch, "periodic")
       ELSE UNCHANGED <<batch, senders>>
    /\ pc' = [pc EXCEPT ![Timer] = "t_failed"]
    /\ UNCHANGED <<outsideBatcher, config, failed_batches, running, stats, lock, loc, nextEvent, hist>>

\* `if self._failed_batches: self.retry_failed_batches()` (read without the lock).
PeriodicCheckFailed ==
    /\ pc[Timer] = "t_failed"
    /\ pc' = [pc EXCEPT ![Timer] = IF PeriodicShouldRetry(failed_batches) THEN "r_lock" ELSE "t_check"]
    /\ UNCHANGED <<outsideBatcher, config, batch, failed_batches, running, stats, lock, loc, senders, nextEvent, hist>>

\* ---------------------------------------------------------------- shutdown
\* A client calls shutdown(), as its last call: `if not self._running: return`.
ShutdownCall(t) ==
    /\ pc[t] = "idle"
    /\ pc' = [pc EXCEPT ![t] = IF running THEN "sd_set" ELSE "sd_done"]
    /\ sdPre' = [sdPre EXCEPT ![t] = running /\ \A e \in Events : passCount[e] = 0]
    /\ UNCHANGED <<outsideBatcher, config, batch, failed_batches, running, stats, lock, loc, senders, nextEvent>>
    /\ UNCHANGED <<histRetry, histPass, sdChanged, lateAdd>>

\* `self._running = False` (written without the lock).
ShutdownSet(t) ==
    /\ pc[t] = "sd_set"
    /\ running' = FALSE
    /\ sdChanged' = [sdChanged EXCEPT ![t] = IF running THEN @ \cup {"running"} ELSE @]
    /\ pc' = [pc EXCEPT ![t] = "sd_lock"]
    /\ UNCHANGED <<outsideBatcher, config, batch, failed_batches, stats, lock, loc, senders, nextEvent>>
    /\ UNCHANGED <<histRetry, histPass, sdPre, lateAdd>>

\* `with self._lock: if self._batch: events = self._batch.copy(); self._batch = []`;
\* with an empty queue the block ends at once, else the lock stays held.
ShutdownDrain(t) ==
    /\ pc[t] = "sd_lock"
    /\ LockFree
    /\ IF batch # <<>>
       THEN /\ loc' = [loc EXCEPT ![t].events = batch]
            /\ batch' = ShutdownRest(batch)
            /\ sdChanged' = [sdChanged EXCEPT ![t] = @ \cup {"queue"}]
            /\ pc' = [pc EXCEPT ![t] = "sd_call"]
            /\ lock' = t
       ELSE /\ UNCHANGED <<loc, batch, sdChanged>>
            /\ pc' = [pc EXCEPT ![t] = "sd_join"]
            /\ lock' = lock
    /\ UNCHANGED <<outsideBatcher, config, failed_batches, running, stats, senders, nextEvent>>
    /\ UNCHANGED <<histRetry, histPass, sdPre, lateAdd>>

\* `self.flush_callback(events)` and the two statistics lines, still inside
\* `with self._lock`, which ends after them.
ShutdownCallback(t) ==
    /\ pc[t] = "sd_call"
    /\ lock = t
    /\ \E res \in CallbackOutcomes :
          /\ passCount' = Passed(passCount, loc[t].events)
          /\ sdPassCount' = Passed(sdPassCount, loc[t].events)
          /\ cbTrue' = Returned(cbTrue, loc[t].events, res)
          /\ IF ExceptionEscapes("shutdown", res)
             THEN /\ crashed' = crashed \cup {t}
                  /\ pc' = [pc EXCEPT ![t] = "crashed"]
                  /\ UNCHANGED stats
             ELSE /\ crashed' = crashed
                  /\ pc' = [pc EXCEPT ![t] = "sd_join"]
                  /\ stats' = IF ShutdownCountsSent(res)
                              THEN [stats EXCEPT !.events_sent = @ + Len(loc[t].events),
                                                 !.batches_sent = @ + 1]
                              ELSE stats
    /\ lock' = NoThread
    /\ loc' = [loc EXCEPT ![t] = NoLocals]
    /\ UNCHANGED <<outsideBatcher, config, batch, failed_batches, running, senders, nextEvent>>
    /\ UNCHANGED <<histRetry, histSd, lateAdd>>

\* `self._flush_thread.join(timeout=2)`, then shutdown returns: at "sd_done" the
\* client's call has returned.
ShutdownJoin(t) ==
    /\ pc[t] = "sd_join"
    /\ JoinMayReturn(pc[Timer])
    /\ pc' = [pc EXCEPT ![t] = "sd_done"]
    /\ UNCHANGED <<outsideBatcher, config, prog_but_pc, hist>>

\* ---------------------------------------------------------------- specification
Next ==
    \/ \E t \in Clients : Add(t)
    \/ \E t \in Clients : Flush(t)
    \/ \E i \in 1..MaxEvents : SendCallback(i)
    \/ \E i \in 1..MaxEvents : SendRecord(i)
    \/ RetryDrain
    \/ RetryCallback
    \/ RetryRecord
    \/ PeriodicCheck
    \/ PeriodicFlush
    \/ PeriodicCheckFailed
    \/ \E t \in Clients : ShutdownCall(t)
    \/ \E t \in Clients : ShutdownSet(t)
    \/ \E t \in Clients : ShutdownDrain(t)
    \/ \E t \in Clients : ShutdownCallback(t)
    \/ \E t \in Clients : ShutdownJoin(t)

Spec == Init /\ [][Next]_vars

\* ================================================================ http_client
\* ---------------------------------------------------------------- RateLimiter, as operators
\* acquire: `[t for t in self._requests if now - t < self.window_seconds]`.
Prune(reqs, now, w) == SelectSeq(reqs, LAMBDA t : now - t < w)

\* acquire: `if len(self._requests) < self.max_requests`.
AcquireAdmits_OneMore(reqs, mr) == Len(reqs) <= mr
AcquireAdmits(reqs, mr) == Len(reqs) < mr

\* acquire: `oldest = min(self._requests)`.
Oldest(reqs) == CHOOSE m \in SeqToSet(reqs) : \A x \in SeqToSet(reqs) : m <= x

\* acquire: `wait_time = self.window_seconds - (now - oldest); return max(0, wait_time)`.
WaitTime(reqs, now, w) ==
    LET wait_time == w - (now - Oldest(reqs)) IN IF wait_time > 0 THEN wait_time ELSE 0

\* wait_and_acquire: `if wait_time > 0:`.
ShouldSleep(wait_time) == wait_time > 0

\* ---------------------------------------------------------------- send_events, as operators
\* `self.session.post(...)` raises on a timeout, on a connection error and, once
\* the adapter's retries are used up, on a status of status_forcelist.
PostRaises(r) ==
    \/ r.kind \in {"timeout", "connection_error"}
    \/ r.kind = "response" /\ r.status \in StatusForcelist

\* `response.raise_for_status()  # Raises exception for 4xx/5xx`.
RaiseForStatus(status) == status >= 400 /\ status < 600

\* `data = response.json()` raises on a body that is not JSON.
JsonRaises(body) == body = "not_json"

\* `data.get('status') == 'ok'`.
StatusIsOk(body) == body = "ok"

\* What send_events returns for the outcome r of the post: every exception is
\* caught by one of the except clauses, each of which returns False.
SendEventsResult(r) ==
    IF PostRaises(r) THEN "false"
    ELSE IF RaiseForStatus(r.status) THEN "false"
    ELSE IF JsonRaises(r.body) THEN "false"
    ELSE IF StatusIsOk(r.body) THEN "true" ELSE "false"

\* shutdown invokes flush_callback inside `with self._lock`; _send_batch and
\* retry_failed_batches invoke it with the batcher lock released.
CallbackHoldsBatcherLock(s) == s = "shutdown"

\* ---------------------------------------------------------------- send_events
\* A thread enters send_events from one of the batcher's call sites and reaches
\* `self._rate_limiter.wait_and_acquire()`.
SendEventsCall(t) ==
    /\ hpc[t] = "idle"
    /\ \E s \in Sites : callSite' = [callSite EXCEPT ![t] = s]
    /\ hpc' = [hpc EXCEPT ![t] = "acq1"]
    /\ UNCHANGED <<outsideHttp, session, limiter, wake, resp, ret, httpHist>>

\* acquire: `with self._lock:` is entered (first call, or the call after the sleep).
AcquireEnter(t) ==
    /\ hpc[t] \in {"acq1", "acq2"}
    /\ rlLock = NoThread
    /\ rlLock' = t
    /\ hpc' = [hpc EXCEPT ![t] = IF hpc[t] = "acq1" THEN "in1" ELSE "in2"]
    /\ UNCHANGED <<outsideHttp, session, max_requests, window_seconds, requests, clock>>
    /\ UNCHANGED <<wake, callSite, resp, ret, httpHist>>

\* acquire: the body of the locked block and its return; then wait_and_acquire
\* sleeps (first call with a positive wait) or returns (the result of the second
\* call is not looked at).
AcquireBody(t) ==
    /\ hpc[t] \in {"in1", "in2"}
    /\ rlLock = t
    /\ LET pruned == Prune(requests, clock, window_seconds)
           ok == AcquireAdmits(pruned, max_requests)
           wait_time == IF ok THEN 0 ELSE WaitTime(pruned, clock, window_seconds)
           sleeps == hpc[t] = "in1" /\ ShouldSleep(wait_time)
           after == IF ok THEN Append(pruned, clock) ELSE pruned
       IN /\ requests' = after
          /\ acqLog' = IF Len(acqLog) <= max_requests
                        THEN Append(acqLog, [at |-> clock, wait |-> wait_time,
                                             recorded |-> Len(after) > Len(pruned)])
                        ELSE acqLog
          /\ hpc' = [hpc EXCEPT ![t] = IF sleeps THEN "sleep" ELSE "post"]
          /\ wake' = [wake EXCEPT ![t] = IF sleeps THEN clock + wait_time ELSE 0]
          /\ returns' = IF sleeps THEN returns ELSE [returns EXCEPT ![clock] = @ + 1]
          /\ callSite' = [callSite EXCEPT ![t] = IF sleeps THEN @ ELSE "none"]
    /\ rlLock' = NoThread
    /\ UNCHANGED <<outsideHttp, session, max_requests, window_seconds, clock, resp, ret>>

\* `time.sleep(wait_time)` ends, no earlier than wait_time after it began.
Wake(t) ==
    /\ hpc[t] = "sleep"
    /\ clock >= wake[t]
    /\ hpc' = [hpc EXCEPT ![t] = "acq2"]
    /\ wake' = [wake EXCEPT ![t] = 0]
    /\ UNCHANGED <<outsideHttp, session, limiter, callSite, resp, ret, httpHist>>

\* time.time() advances.
Tick ==
    /\ clock < MaxClock
    /\ clock' = clock + 1
    /\ UNCHANGED <<outsideHttp, session, max_requests, window_seconds, requests, rlLock>>
    /\ UNCHANGED <<callers, httpHist>>

\* `response = self.session.post(...)` ends with some outcome.
Post(t) ==
    /\ hpc[t] = "post"
    /\ \E r \in Responses : resp' = [resp EXCEPT ![t] = r]
    /\ hpc' = [hpc EXCEPT ![t] = "resp"]
    /\ UNCHANGED <<outsideHttp, session, limiter, wake, callSite, ret, httpHist>>

\* The rest of send_events: the checks on the response and the return.
SendEventsReturn(t) ==
    /\ hpc[t] = "resp"
    /\ ret' = [ret EXCEPT ![t] = SendEventsResult(resp[t])]
    /\ resp' = [resp EXCEPT ![t] = NoResponse]
    /\ hpc' = [hpc EXCEPT ![t] = "done"]
    /\ UNCHANGED <<outsideHttp, session, limiter, wake, callSite, httpHist>>

HttpInit ==
    /\ TrackerConstructed
    /\ BatcherConstructed(1, "always_true")
    /\ \E mr \in 1..MaxRequests : HttpConstructed(mr, WindowTicks)
    /\ SessionConstructed(MaxRetries)
    /\ PricingConstructed(<<>>, NoConfig)

\* The limiter under concurrent callers, up to the return of wait_and_acquire.
LimiterNext ==
    \/ \E t \in Callers : SendEventsCall(t)
    \/ \E t \in Callers : AcquireEnter(t)
    \/ \E t \in Callers : AcquireBody(t)
    \/ \E t \in Callers : Wake(t)
    \/ Tick

LimiterSpec == HttpInit /\ [][LimiterNext]_vars

\* Whole send_events calls.
SendEventsNext ==
    \/ \E t \in SendCallers : SendEventsCall(t)
    \/ \E t \in SendCallers : AcquireEnter(t)
    \/ \E t \in SendCallers : AcquireBody(t)
    \/ \E t \in SendCallers : Wake(t)
    \/ Tick
    \/ \E t \in SendCallers : Post(t)
    \/ \E t \in SendCallers : SendEventsReturn(t)

SendEventsSpec == HttpInit /\ [][SendEventsNext]_vars

\* ---------------------------------------------------------------- the session's retries
\* Retry.is_retry for the outcome of an attempt of a POST, which is in
\* allowed_methods: a status of status_forcelist; or, while `total` is not 0, an
\* answer with a Retry-After header and a status of RETRY_AFTER_STATUS_CODES.
\* An attempt that failed at the connection level (connection error, timeout)
\* is retried as well.
IsRetry(o, total) ==
    \/ o.response.kind \in {"timeout", "connection_error"}
    \/ o.response.kind = "response" /\ o.response.status \in StatusForcelist
    \/ /\ o.response.kind = "response"
       /\ total # 0
       /\ o.retry_after
       /\ o.response.status \in RetryAfterStatusCodes

\* Retry.increment and is_exhausted: a retry takes one from `total`, and with
\* none left the post raises instead.
Exhausted(total) == total - 1 < 0

\* One HTTP attempt of `self.session.post(...)` ends with the outcome o: the
\* adapter retries it, or the post ends with it (returning the response, or
\* raising for a failure or for used-up retries).
Attempt(t) ==
    /\ hpc[t] = "post"
    /\ \E o \in AttemptOutcomes :
          /\ attempts' = [attempts EXCEPT ![t] = @ + 1]
          /\ IF IsRetry(o, retry_total[t]) /\ ~Exhausted(retry_total[t])
             THEN /\ retry_total' = [retry_total EXCEPT ![t] = @ - 1]
                  /\ lastRetried' = [lastRetried EXCEPT ![t] = [o.response EXCEPT !.body = "none"]]
                  /\ UNCHANGED <<hpc, resp>>
             ELSE /\ resp' = [resp EXCEPT ![t] = o.response]
                  /\ hpc' = [hpc EXCEPT ![t] = "resp"]
                  /\ UNCHANGED <<retry_total, lastRetried>>
    /\ UNCHANGED <<outsideHttp, limiter, wake, callSite, ret, httpHist, max_retries>>

AttemptsInit ==
    /\ TrackerConstructed
    /\ BatcherConstructed(1, "always_true")
    /\ \E mr \in 1..MaxRequests : HttpConstructed(mr, WindowTicks)
    /\ \E r \in 0..MaxRetries : SessionConstructed(r)
    /\ PricingConstructed(<<>>, NoConfig)

\* Whole send_events calls, one HTTP attempt at a time.
AttemptsNext ==
    \/ \E t \in SendCallers : SendEventsCall(t)
    \/ \E t \in SendCallers : AcquireEnter(t)
    \/ \E t \in SendCallers : AcquireBody(t)
    \/ \E t \in SendCallers : Wake(t)
    \/ Tick
    \/ \E t \in SendCallers : Attempt(t)
    \/ \E t \in SendCallers : SendEventsReturn(t)

AttemptsSpec == AttemptsInit /\ [][AttemptsNext]_vars

\* ================================================================ cost_calculator
\* ---------------------------------------------------------------- strings and dicts
\* `model.lower()`.
Lower(str) ==
    [k \in 1..Len(str) |-> IF str[k] = "A" THEN "a" ELSE IF str[k] = "B" THEN "b" ELSE str[k]]

\* `x in y` on strings.
IsSubstring(x, y) == \E k \in 0..(Len(y) - Len(x)) : SubSeq(y, k + 1, k + Len(x)) = x

\* `model in table`, and `table[model]`.
HasKey(table, key) == \E k \in 1..Len(table) : table[k].key = key
Lookup(table, key) == table[CHOOSE k \in 1..Len(table) : table[k].key = key].price

\* `table.update(more)`: a key already present keeps its place and takes the new
\* value, a new key goes to the end.
RECURSIVE DictUpdate(_, _)
DictUpdate(table, more) ==
    IF more = <<>> THEN table
    ELSE LET e == Head(more)
             merged == IF HasKey(table, e.key)
                       THEN [k \in 1..Len(table) |-> IF table[k].key = e.key THEN e ELSE table[k]]
                       ELSE Append(table, e)
         IN DictUpdate(merged, Tail(more))

\* ---------------------------------------------------------------- _get_model_pricing, as operators
\* `if known_model in model_lower` of the two loops of _get_model_pricing.
KeyMatches(key, model_lower) == IsSubstring(key, model_lower)

\* `for known_model, pricing in table.items(): if ...: return pricing`: the
\* entries of the table that match, in the order of the loop.
SubstringHits(table, model) == SelectSeq(table, LAMBDA e : KeyMatches(e.key, Lower(model)))

\* One tier of the lookup: exact key, else the first substring hit.
TierHits(table, model) == HasKey(table, model) \/ SubstringHits(table, model) # <<>>
TierPricing(table, model) ==
    IF HasKey(table, model) THEN Lookup(table, model) ELSE Head(SubstringHits(table, model)).price

\* `if config and config.base_url:`: the dynamic tier is consulted.
UsesDynamic(c) == c.set /\ c.base_url # ""

\* get_pricing: `return self._pricing_cache if self._pricing_cache else DEFAULT_PRICING`.
GetPricingReturn(cache) == IF cache # <<>> THEN cache ELSE DEFAULT_PRICING

\* _get_model_pricing(model), with `dynamic` what get_pricing returned.
ModelPricing(model, cp, c, dynamic) ==
    IF HasKey(cp, model) THEN Lookup(cp, model)
    ELSE IF c.set /\ HasKey(c.custom_pricing, model) THEN Lookup(c.custom_pricing, model)
    ELSE IF UsesDynamic(c) /\ TierHits(dynamic, model) THEN TierPricing(dynamic, model)
    ELSE IF TierHits(DEFAULT_PRICING, model) THEN TierPricing(DEFAULT_PRICING, model)
    ELSE ZeroPricing

\* _get_model_pricing reaches `_pricing_manager.get_pricing(config.base_url)`.
CallsGetPricing(model, cp, c) ==
    /\ ~HasKey(cp, model)
    /\ ~(c.set /\ HasKey(c.custom_pricing, model))
    /\ UsesDynamic(c)

\* ---------------------------------------------------------------- get_pricing, as operators
\* `needs_fetch`.
NeedsFetch_Always(cache, lf, now) == TRUE
NeedsFetch(cache, lf, now) ==
    cache = <<>> \/ (lf # NoFetch /\ now - lf > FetchIntervalTicks)

\* _fetch_pricing: `if self._fetch_attempted and self._pricing_cache: return`.
FetchSkipped(attempted, cache) == attempted /\ cache # <<>>

\* get_pricing issues the request of _fetch_pricing.
Fetches(cache, lf, now, attempted, in_progress) ==
    NeedsFetch(cache, lf, now) /\ ~in_progress /\ ~FetchSkipped(attempted, cache)

\* `prices.get(field, 0.0)`.
PricesGet(prices, field) == IF field \in DOMAIN prices THEN prices[field] ELSE 0

\* The `new_cache` _fetch_pricing builds from the 'pricing' map of the answer.
NewCache(pricing_data) ==
    [k \in 1..Len(pricing_data) |->
        [key |-> pricing_data[k].key,
         price |-> [tier |-> "remote", key |-> pricing_data[k].key,
                    input |-> PricesGet(pricing_data[k].prices, "input"),
                    output |-> PricesGet(pricing_data[k].prices, "output")]]]

\* `self._pricing_cache = new_cache`: the cache after a 200 answer.
FetchedCache_Merged(cache, pricing_data) == DictUpdate(cache, NewCache(pricing_data))
FetchedCache(cache, pricing_data) == NewCache(pricing_data)

\* The `finally` clause of _fetch_pricing: `self._fetch_in_progress = False`.
InProgressFinally_Kept(in_progress) == in_progress
InProgressFinally(in_progress) == FALSE

\* _fetch_pricing past its early return, entered with the given cache and
\* last-fetch time, its request ending with outcome f: the cache and the time
\* are replaced on a 200 answer only; the `finally` clause clears the in-flight
\* flag and starts a reset_flag thread.
FetchPricing(cache, lf, f) ==
    /\ pricing_cache' = IF f.ok THEN FetchedCache(cache, f.pricing) ELSE cache
    /\ last_fetch' = IF f.ok THEN pclock ELSE lf
    /\ fetch_attempted' = TRUE
    /\ fetch_in_progress' = InProgressFinally(TRUE)
    /\ resetAt' = resetAt \cup {pclock + CooldownTicks}
    /\ fetchResult' = [made |-> TRUE, ok |-> f.ok, pricing |-> f.pricing, before |-> pricing_cache]
    /\ lastFail' = IF f.ok THEN lastFail ELSE pclock

\* ---------------------------------------------------------------- cost_calculator actions
\* _get_model_pricing(model): the two custom tiers, then get_pricing (with the
\* fetch it may make, inside the manager's lock) and the dynamic tier, then the
\* static table.
GetModelPricing(model) ==
    /\ lastModel' = model
    /\ IF /\ CallsGetPricing(model, custom_pricing, cfg)
          /\ Fetches(pricing_cache, last_fetch, pclock, fetch_attempted, fetch_in_progress)
       THEN \E f \in FetchOutcomes : FetchPricing(pricing_cache, last_fetch, f)
       ELSE /\ fetchResult' = NoRequest
            /\ UNCHANGED <<pricing_cache, last_fetch, fetch_attempted, fetch_in_progress,
                           resetAt, lastFail>>
    /\ lastResult' = ModelPricing(model, custom_pricing, cfg, GetPricingReturn(pricing_cache'))
    /\ UNCHANGED <<outsidePricing, calculator, pclock, fetchers, looker>>

\* force_fetch(base_url): the flag, the cache and the time are reset, then
\* get_pricing(base_url) runs on the emptied cache.
ForceFetch(base_url) ==
    /\ IF /\ base_url # ""
          /\ Fetches(<<>>, NoFetch, pclock, FALSE, fetch_in_progress)
       THEN \E f \in FetchOutcomes : FetchPricing(<<>>, NoFetch, f)
       ELSE /\ pricing_cache' = <<>>
            /\ last_fetch' = NoFetch
            /\ fetch_attempted' = FALSE
            /\ fetchResult' = NoRequest
            /\ UNCHANGED <<fetch_in_progress, resetAt, lastFail>>
    /\ lastModel' = NoModel
    /\ lastResult' = ZeroPricing
    /\ UNCHANGED <<outsidePricing, calculator, pclock, fetchers, looker>>

\* update_pricing(pricing).
UpdatePricing(pricing) ==
    /\ mlock = NoThread
    /\ pricing_cache' = DictUpdate(pricing_cache, pricing)
    /\ last_fetch' = pclock
    /\ lastModel' = NoModel
    /\ lastResult' = ZeroPricing
    /\ fetchResult' = NoRequest
    /\ UNCHANGED <<outsidePricing, calculator, fetch_attempted, fetch_in_progress, resetAt,
                   pclock, lastFail, fetchers, looker>>

\* refresh_pricing() -> clear_cache().
ClearCache ==
    /\ mlock = NoThread
    /\ pricing_cache' = <<>>
    /\ last_fetch' = NoFetch
    /\ fetch_attempted' = FALSE
    /\ lastModel' = NoModel
    /\ lastResult' = ZeroPricing
    /\ fetchResult' = NoRequest
    /\ UNCHANGED <<outsidePricing, calculator, fetch_in_progress, resetAt, pclock, lastFail,
                   fetchers, looker>>

\* A reset_flag thread ends its `time.sleep(300)` and clears _fetch_attempted.
ResetFlag ==
    /\ \E k \in resetAt :
          /\ pclock >= k
          /\ resetAt' = resetAt \ {k}
    /\ fetch_attempted' = FALSE
    /\ lastModel' = NoModel
    /\ lastResult' = ZeroPricing
    /\ fetchResult' = NoRequest
    /\ UNCHANGED <<outsidePricing, calculator, pricing_cache, last_fetch, fetch_in_progress,
                   pclock, lastFail, fetchers, looker>>

\* time.time() advances.
PricingTick ==
    /\ pclock < MaxPricingClock
    /\ pclock' = pclock + 1
    /\ lastModel' = NoModel
    /\ lastResult' = ZeroPricing
    /\ fetchResult' = NoRequest
    /\ UNCHANGED <<outsidePricing, calculator, pricing_cache, last_fetch, fetch_attempted,
                   fetch_in_progress, resetAt, lastFail, fetchers, looker>>

PricingInit ==
    /\ TrackerConstructed
    /\ BatcherConstructed(1, "always_true")
    /\ HttpConstructed(MaxRequests, WindowTicks)
    /\ SessionConstructed(MaxRetries)
    /\ \E cp \in CalculatorCustoms, c \in Configs : PricingConstructed(cp, c)

PricingNext ==
    \/ \E model \in ModelNames : GetModelPricing(model)
    \/ \E base_url \in {"", "url"} : ForceFetch(base_url)
    \/ \E pricing \in RemoteTables : UpdatePricing(pricing)
    \/ ClearCache
    \/ ResetFlag
    \/ PricingTick

PricingSpec == PricingInit /\ [][PricingNext]_vars

\* ---------------------------------------------------------------- _get_model_pricing, step by step
\* In PricingSpec a lookup is one step. Here one thread's lookup runs its loop
\* over the dynamic table one `next()` at a time, while other threads call
\* update_pricing. get_pricing returns the cache object itself when it is not
\* empty, and update_pricing changes that object in place, so the loop sees the
\* update; the loop holds no lock.
LookerTable == IF looker.aliased THEN pricing_cache ELSE DEFAULT_PRICING

\* The static tier and the zero entry: the end of _get_model_pricing.
StaticPricing(model) ==
    IF TierHits(DEFAULT_PRICING, model) THEN TierPricing(DEFAULT_PRICING, model) ELSE ZeroPricing

\* _get_model_pricing(model) up to its return, or up to the start of its loop
\* over the dynamic table.
LookupBegin(model) ==
    /\ looker.at = "idle"
    /\ mlock = NoThread
    /\ IF /\ CallsGetPricing(model, custom_pricing, cfg)
          /\ Fetches(pricing_cache, last_fetch, pclock, fetch_attempted, fetch_in_progress)
       THEN \E f \in FetchOutcomes : FetchPricing(pricing_cache, last_fetch, f)
       ELSE /\ fetchResult' = NoRequest
            /\ UNCHANGED <<pricing_cache, last_fetch, fetch_attempted, fetch_in_progress,
                           resetAt, lastFail>>
    /\ IF /\ CallsGetPricing(model, custom_pricing, cfg)
          /\ ~HasKey(GetPricingReturn(pricing_cache'), model)
       THEN /\ looker' = [at |-> "loop", model |-> model, aliased |-> pricing_cache' # <<>>,
                          pos |-> 1, used |-> Len(GetPricingReturn(pricing_cache'))]
            /\ lastModel' = NoModel
            /\ lastResult' = ZeroPricing
       ELSE /\ looker' = NoLooker
            /\ lastModel' = model
            /\ lastResult' = ModelPricing(model, custom_pricing, cfg, GetPricingReturn(pricing_cache'))
    /\ UNCHANGED <<outsidePricing, calculator, pclock, fetchers>>

\* One `next()` of `for known_model, pricing in dynamic_pricing.items()`, and
\* the body of the loop: the iterator raises RuntimeError if the size of the
\* dict is no longer what it was when the iterator was made; at the end of the
\* dict the lookup goes on to the static tier.
LookupStep ==
    /\ looker.at = "loop"
    /\ LET table == LookerTable
           model == looker.model
       IN IF Len(table) # looker.used
          THEN /\ lastResult' = Raised
               /\ lastModel' = model
               /\ looker' = NoLooker
          ELSE IF looker.pos > Len(table)
          THEN /\ lastResult' = StaticPricing(model)
               /\ lastModel' = model
               /\ looker' = NoLooker
          ELSE IF KeyMatches(table[looker.pos].key, Lower(model))
          THEN /\ lastResult' = table[looker.pos].price
               /\ lastModel' = model
               /\ looker' = NoLooker
          ELSE /\ looker' = [looker EXCEPT !.pos = @ + 1]
               /\ UNCHANGED lastLookup
    /\ UNCHANGED <<outsidePricing, calculator, manager, fetchHist, fetchers>>

\* update_pricing(pricing) in another thread, while the lookup is in its loop
\* or between two lookups.
UpdateDuringLookup(pricing) ==
    /\ mlock = NoThread
    /\ pricing_cache' = DictUpdate(pricing_cache, pricing)
    /\ last_fetch' = pclock
    /\ UNCHANGED <<outsidePricing, calculator, fetch_attempted, fetch_in_progress, resetAt,
                   pclock, lookups, fetchers>>

LookupNext ==
    \/ \E model \in ModelNames : LookupBegin(model)
    \/ LookupStep
    \/ \E pricing \in RemoteTables : UpdateDuringLookup(pricing)

LookupSpec == PricingInit /\ [][LookupNext]_vars

\* ---------------------------------------------------------------- get_pricing, by concurrent threads
\* The calls of PricingSpec run one at a time. Here threads call get_pricing and
\* force_fetch concurrently: a `with self._lock:` block is one step unless the
\* request of _fetch_pricing is made inside it, and the request is in flight
\* between the step that makes it and the step that handles its outcome.

\* A thread calls get_pricing(base_url) with a base_url that is set.
GetPricingCall(t) ==
    /\ gpc[t] = "idle"
    /\ gpc' = [gpc EXCEPT ![t] = "gp_lock"]
    /\ UNCHANGED <<outsidePricing, calculator, manager, lookups, mlock, gret>>

\* `with self._lock:` of get_pricing up to the return, or up to the request of
\* _fetch_pricing, which is made with the lock held.
GetPricingEnter(t) ==
    /\ gpc[t] = "gp_lock"
    /\ mlock = NoThread
    /\ IF Fetches(pricing_cache, last_fetch, pclock, fetch_attempted, fetch_in_progress)
       THEN /\ fetch_in_progress' = TRUE
            /\ fetch_attempted' = TRUE
            /\ mlock' = t
            /\ gpc' = [gpc EXCEPT ![t] = "fetching"]
            /\ UNCHANGED gret
       ELSE /\ gret' = [gret EXCEPT ![t] = GetPricingReturn(pricing_cache)]
            /\ gpc' = [gpc EXCEPT ![t] = "idle"]
            /\ UNCHANGED <<fetch_in_progress, fetch_attempted, mlock>>
    /\ UNCHANGED <<outsidePricing, calculator, pricing_cache, last_fetch, resetAt, pclock,
                   lookups>>

\* The request of _fetch_pricing ends with outcome f; the rest of _fetch_pricing
\* and of get_pricing follow, and the lock is released.
FetchAnswer(t) ==
    /\ gpc[t] = "fetching"
    /\ \E f \in FetchOutcomes :
          /\ pricing_cache' = IF f.ok THEN FetchedCache(pricing_cache, f.pricing) ELSE pricing_cache
          /\ last_fetch' = IF f.ok THEN pclock ELSE last_fetch
    /\ fetch_in_progress' = InProgressFinally(fetch_in_progress)
    /\ resetAt' = resetAt \cup {pclock + CooldownTicks}
    /\ gret' = [gret EXCEPT ![t] = GetPricingReturn(pricing_cache')]
    /\ mlock' = NoThread
    /\ gpc' = [gpc EXCEPT ![t] = "idle"]
    /\ UNCHANGED <<outsidePricing, calculator, fetch_attempted, pclock, lookups>>

\* force_fetch(base_url): its three assignments, made without the lock, one
\* step each, and then its get_pricing call.
ForceFetchFlag(t) ==
    /\ gpc[t] = "idle"
    /\ fetch_attempted' = FALSE
    /\ gpc' = [gpc EXCEPT ![t] = "ff_cache"]
    /\ UNCHANGED <<outsidePricing, calculator, pricing_cache, last_fetch, fetch_in_progress,
                   resetAt, pclock, lookups, mlock, gret>>

ForceFetchCache(t) ==
    /\ gpc[t] = "ff_cache"
    /\ pricing_cache' = <<>>
    /\ gpc' = [gpc EXCEPT ![t] = "ff_time"]
    /\ UNCHANGED <<outsidePricing, calculator, last_fetch, fetch_attempted, fetch_in_progress,
                   resetAt, pclock, lookups, mlock, gret>>

ForceFetchTime(t) ==
    /\ gpc[t] = "ff_time"
    /\ last_fetch' = NoFetch
    /\ gpc' = [gpc EXCEPT ![t] = "gp_lock"]
    /\ UNCHANGED <<outsidePricing, calculator, pricing_cache, fetch_attempted, fetch_in_progress,
                   resetAt, pclock, lookups, mlock, gret>>

ManagerNext ==
    \/ \E t \in Fetchers : GetPricingCall(t)
    \/ \E t \in Fetchers : GetPricingEnter(t)
    \/ \E t \in Fetchers : FetchAnswer(t)
    \/ \E t \in Fetchers : ForceFetchFlag(t)
    \/ \E t \in Fetchers : ForceFetchCache(t)
    \/ \E t \in Fetchers : ForceFetchTime(t)
    \/ \E pricing \in RemoteTables : UpdatePricing(pricing)
    \/ ClearCache
    \/ ResetFlag
    \/ PricingTick

ManagerInit ==
    /\ TrackerConstructed
    /\ BatcherConstructed(1, "always_true")
    /\ HttpConstructed(MaxRequests, WindowTicks)
    /\ SessionConstructed(MaxRetries)
    /\ PricingConstructed(<<>>, [set |-> TRUE, base_url |-> "url", custom_pricing |-> <<>>])

ManagerSpec == ManagerInit /\ [][ManagerNext]_vars

\* ---------------------------------------------------------------- calculate_cost, get_cost_breakdown
\* `(tokens / 1000) * pricing[field]`, exactly, in units of 1e-9 USD.
TokenCost(tokens, rate) == tokens * rate

\* `round(x, 8)` of a float whose exact value is x units of 1e-9 USD, in units
\* of 1e-8 USD: the nearest multiple; when x is exactly half-way between two,
\* the binary representation of the float decides, and both are outcomes.
Round8_SixPlaces(x) == {((x + 500) \div 1000) * 100}
Round8(x) ==
    IF x % 10 < 5 THEN {x \div 10}
    ELSE IF x % 10 > 5 THEN {x \div 10 + 1}
    ELSE {x \div 10, x \div 10 + 1}

\* calculate_cost, from the pricing entry its lookup returned.
CalculateCost(pricing, input_tokens, output_tokens) ==
    LET input_cost == TokenCost(input_tokens, pricing.input)
        output_cost == TokenCost(output_tokens, pricing.output)
        total_cost == input_cost + output_cost
    IN /\ costArgs' = [fn |-> "calculate_cost", pricing |-> pricing,
                       input_tokens |-> input_tokens, output_tokens |-> output_tokens]
       /\ \E rounded \in Round8(total_cost) :
             costOut' = [input_cost |-> NoCost, output_cost |-> NoCost, total_cost |-> rounded]
       /\ UNCHANGED <<outsidePricing, custom_pricing, cfg, manager, lookups, fetchers>>

\* get_cost_breakdown, from the pricing entry its lookup returned: three
\* roundings. `input_cost + output_cost` is the float input_cost itself when
\* output_cost is 0.0 (and the other way round), and then rounds as it does.
GetCostBreakdown(pricing, input_tokens, output_tokens) ==
    LET input_cost == TokenCost(input_tokens, pricing.input)
        output_cost == TokenCost(output_tokens, pricing.output)
    IN /\ costArgs' = [fn |-> "get_cost_breakdown", pricing |-> pricing,
                       input_tokens |-> input_tokens, output_tokens |-> output_tokens]
       /\ \E ri \in Round8(input_cost), ro \in Round8(output_cost),
             rt \in Round8(input_cost + output_cost) :
             /\ output_cost = 0 => rt = ri
             /\ input_cost = 0 => rt = ro
             /\ costOut' = [input_cost |-> ri, output_cost |-> ro, total_cost |-> rt]
       /\ UNCHANGED <<outsidePricing, custom_pricing, cfg, manager, lookups, fetchers>>

CostNext ==
    \/ \E pricing \in CostPricings, input_tokens, output_tokens \in TokenCounts :
          CalculateCost(pricing, input_tokens, output_tokens)
    \/ \E pricing \in CostPricings, input_tokens, output_tokens \in TokenCounts :
          GetCostBreakdown(pricing, input_tokens, output_tokens)

\* CostCalculator() with no configuration set.
CostInit ==
    /\ TrackerConstructed
    /\ BatcherConstructed(1, "always_true")
    /\ HttpConstructed(MaxRequests, WindowTicks)
    /\ SessionConstructed(MaxRetries)
    /\ PricingConstructed(<<>>, NoConfig)

CostSpec == CostInit /\ [][CostNext]_vars

\* ---------------------------------------------------------------- tracker: init, set_agent_name
\* init(enabled=.., default_agent_name=.., global_metadata=..) on a tracker that
\* is not initialised: it builds the configuration and set_config installs it.
InitTracker(enabled, name, gm) ==
    /\ ~tracker_config.set
    /\ tracker_config' = [set |-> TRUE, enabled |-> enabled, default_agent_name |-> name,
                          global_metadata |-> gm]
    /\ meta0' = gm
    /\ lastCall' = NoTrackedCall
    /\ UNCHANGED <<outsideTracker, agent_name_var, scopes>>

\* set_agent_name(name): `if self._config: self._config.default_agent_name = name`.
SetAgentName(name) ==
    /\ tracker_config' = IF tracker_config.set
                         THEN [tracker_config EXCEPT !.default_agent_name = name]
                         ELSE tracker_config
    /\ lastCall' = NoTrackedCall
    /\ UNCHANGED <<outsideTracker, agent_name_var, scopes, meta0>>

\* ---------------------------------------------------------------- tracker: metadata(**kwargs)
\* `merged = {**old_metadata, **kwargs}` for the one key of the scope of thread t.
Merged(old_metadata, key, t) == [old_metadata EXCEPT ![key] = ScopeValue(t)]

\* Thread t enters `with tracker.metadata(key=..)`: without a configuration the
\* scope does nothing; else `old_metadata = self._config.global_metadata.copy()`.
MetadataSnapshot(t) ==
    /\ scopes[t].meta = "out"
    /\ scopes' = [scopes EXCEPT ![t] =
                     IF tracker_config.set
                     THEN [@ EXCEPT !.meta = "snap", !.key = ScopeKey(t),
                                    !.old_metadata = tracker_config.global_metadata]
                     ELSE [@ EXCEPT !.meta = "noop"]]
    /\ lastCall' = NoTrackedCall
    /\ UNCHANGED <<outsideTracker, tracker_config, agent_name_var, meta0>>

\* `self._config.global_metadata = merged`, a statement of its own after the
\* copy; then the body of the `with` runs.
MetadataEnter(t) ==
    /\ scopes[t].meta = "snap"
    /\ tracker_config' = [tracker_config EXCEPT !.global_metadata =
                              Merged(scopes[t].old_metadata, scopes[t].key, t)]
    /\ scopes' = [scopes EXCEPT ![t].meta = "in"]
    /\ lastCall' = NoTrackedCall
    /\ UNCHANGED <<outsideTracker, agent_name_var, meta0>>

\* The body ends: `self._config.global_metadata = old_metadata`.
MetadataExit(t) ==
    /\ scopes[t].meta \in {"in", "noop"}
    /\ tracker_config' = IF scopes[t].meta = "in"
                         THEN [tracker_config EXCEPT !.global_metadata = scopes[t].old_metadata]
                         ELSE tracker_config
    /\ scopes' = [scopes EXCEPT ![t].meta = "out", ![t].key = "none",
                                ![t].old_metadata = NoMetadata]
    /\ lastCall' = NoTrackedCall
    /\ UNCHANGED <<outsideTracker, agent_name_var, meta0>>

\* ---------------------------------------------------------------- tracker: agent(name)
\* Thread t enters `with tracker.agent(name)` (the scopes of a thread do not nest
\* here): without a configuration the scope does nothing; else
\* `token = _agent_name_var.set(name)`, in the context of the thread.
AgentEnter(t, name) ==
    /\ scopes[t].agent = "out"
    /\ IF tracker_config.set
       THEN /\ agent_name_var' = [agent_name_var EXCEPT ![t] = name]
            /\ scopes' = [scopes EXCEPT ![t].agent = "in", ![t].name = name,
                                        ![t].token = agent_name_var[t]]
       ELSE /\ scopes' = [scopes EXCEPT ![t].agent = "noop", ![t].name = name]
            /\ UNCHANGED agent_name_var
    /\ lastCall' = NoTrackedCall
    /\ UNCHANGED <<outsideTracker, tracker_config, meta0>>

\* The body ends: `_agent_name_var.reset(token)`.
AgentExit(t) ==
    /\ scopes[t].agent \in {"in", "noop"}
    /\ agent_name_var' = IF scopes[t].agent = "in"
                         THEN [agent_name_var EXCEPT ![t] = scopes[t].token]
                         ELSE agent_name_var
    /\ scopes' = [scopes EXCEPT ![t].agent = "out", ![t].name = NoName, ![t].token = NoName]
    /\ lastCall' = NoTrackedCall
    /\ UNCHANGED <<outsideTracker, tracker_config, meta0>>

\* ---------------------------------------------------------------- interceptor
\* _get_effective_agent_name(conf, explicit), with ctx_name the value of
\* _agent_name_var in the caller's context.
EffectiveAgentName(conf, explicit, ctx_name) ==
    IF explicit # NoName THEN explicit
    ELSE IF ctx_name # NoName THEN ctx_name
    ELSE IF conf.set THEN conf.default_agent_name
    ELSE "default"

\* tracked_ainvoke: `agent_name = kwargs.pop('_agentcost_agent', None)`, then the
\* configured default, then 'default'; it does not read _agent_name_var.
AinvokeAgentName(conf, explicit) ==
    LET agent_name == IF explicit = NoName /\ conf.set
                      THEN conf.default_agent_name
                      ELSE explicit
    IN IF agent_name = NoName THEN "default" ELSE agent_name

\* The agent name each wrapped entry point computes.
AgentNameOf(entry, conf, explicit, ctx_name) ==
    IF entry = "ainvoke"
    THEN AinvokeAgentName(conf, explicit)
    ELSE EffectiveAgentName(conf, explicit, ctx_name)

\* `if conf and not conf.enabled:` the wrapper only calls the original.
TrackingDisabled(conf) == conf.set /\ ~conf.enabled

\* The `finally` block of each wrapper computes `end_time - start_time`;
\* tracked_invoke alone never assigns start_time, so that there the block raises
\* NameError before the event is built.
FinallyRaises(entry) == entry = "invoke"

\* The event the `finally` block builds: the fields that depend on the tracker.
\* `event['metadata']` is set only for a non-empty global_metadata.
TrackedEvent(agent_name, wrapped, conf) ==
    [agent_name |-> agent_name,
     success |-> wrapped = "ok",
     metadata |-> IF conf.set THEN conf.global_metadata ELSE NoMetadata]

\* What the application gets from the wrapper when its own code raises nothing.
WrappedResult(wrapped) == IF wrapped = "ok" THEN "response" ELSE "wrapped_exception"

\* Thread t calls the wrapped entry point `entry`, with or without the
\* `_agentcost_agent` argument; the original call returns or raises, and the
\* event callback, if it is reached, returns or raises.
TrackedCall(t, entry, explicit, wrapped, callback) ==
    /\ lastCall' =
          LET conf == tracker_config
              call == [t |-> t, entry |-> entry, explicit |-> explicit,
                       ctx |-> agent_name_var[t], enabled |-> ~TrackingDisabled(conf),
                       wrapped |-> wrapped, callback |-> "none",
                       result |-> WrappedResult(wrapped), events |-> <<>>]
          IN IF TrackingDisabled(conf) THEN call
             ELSE IF FinallyRaises(entry) THEN [call EXCEPT !.result = "NameError"]
             ELSE [call EXCEPT
                      !.callback = callback,
                      !.events = <<TrackedEvent(AgentNameOf(entry, conf, explicit,
                                                            agent_name_var[t]),
                                                wrapped, conf)>>]
    /\ UNCHANGED <<outsideTracker, tracker_config, agent_name_var, scopes, meta0>>

TrackerNext ==
    \/ \E enabled \in BOOLEAN, name \in DefaultNames, gm \in InitMetadata :
          InitTracker(enabled, name, gm)
    \/ \E name \in DefaultNames : SetAgentName(name)
    \/ \E t \in Scopers, name \in AgentNames : AgentEnter(t, name)
    \/ \E t \in Scopers : AgentExit(t)
    \/ \E t \in Scopers, entry \in EntryPoints, explicit \in AgentNames \cup {NoName},
          wrapped \in {"ok", "raise"}, callback \in {"ok", "raise"} :
          TrackedCall(t, entry, explicit, wrapped, callback)

TrackerInit ==
    /\ TrackerConstructed
    /\ BatcherConstructed(1, "always_true")
    /\ HttpConstructed(MaxRequests, WindowTicks)
    /\ SessionConstructed(MaxRetries)
    /\ PricingConstructed(<<>>, NoConfig)

\* The agent scopes and the tracked calls of concurrent threads.
TrackerSpec == TrackerInit /\ [][TrackerNext]_vars

\* The metadata scopes of concurrent threads.
MetadataNext ==
    \/ \E enabled \in BOOLEAN, name \in DefaultNames, gm \in InitMetadata :
          InitTracker(enabled, name, gm)
    \/ \E t \in Scopers : MetadataSnapshot(t)
    \/ \E t \in Scopers : MetadataEnter(t)
    \/ \E t \in Scopers : MetadataExit(t)

MetadataSpec == TrackerInit /\ [][MetadataNext]_vars

\* ---------------------------------------------------------------- state sanity
Added == 1..(nextEvent - 1)
SendersDone == \A i \in 1..Len(senders) : senders[i].st = "done"
RetryIdle == pc[Timer] \notin {"r_call", "r_lock2"}

\* A shutdown call has returned and none is under way.
ShutdownOver ==
    /\ \E t \in Clients : pc[t] = "sd_done"
    /\ \A t \in Clients : pc[t] \in {"idle", "sd_done"}

TypeOK ==
    /\ batch \in Seq(Events)
    /\ running \in BOOLEAN
    /\ lock \in Clients \cup {NoThread}
    /\ Len(senders) <= MaxEvents
    /\ \A e \in Events : passCount[e] \in 0..2 /\ sdPassCount[e] \in 0..2
    /\ nextEvent \in 1..(MaxEvents + 1)

\* ---------------------------------------------------------------- C1
\* C1: with a flush_callback that always returns True, no added event is passed to
\* flush_callback more than once; and once the final shutdown (no add overlapped
\* or followed a shutdown call, and no shutdown call is still under way) has
\* returned and every dispatched send has completed, every added event has been
\* passed exactly once, events_sent = events_added, and the live queue and the
\* retry buffer are empty.
C1_ExactlyOnce ==
    cbMode = "always_true" =>
        /\ \A e \in Events : passCount[e] <= 1
        /\ (ShutdownOver /\ ~lateAdd /\ SendersDone /\ RetryIdle)
              => /\ \A e \in Added : passCount[e] = 1
                 /\ stats.events_sent = stats.events_added
                 /\ stats.events_added = nextEvent - 1
                 /\ batch = <<>>
                 /\ failed_batches = <<>>

\* A final shutdown has returned after concurrent adds whose events went out both
\* through delivery threads and through shutdown's own flush.
C1_Witness ==
    /\ cbMode = "always_true"
    /\ ShutdownOver
    /\ ~lateAdd /\ SendersDone /\ RetryIdle
    /\ nextEvent = MaxEvents + 1
    /\ Len(senders) >= 1
    /\ \E e \in Added : sdPassCount[e] = 1
    /\ \E e \in Added : sdPassCount[e] = 0 /\ passCount[e] = 1

\* ---------------------------------------------------------------- C2
\* C2: when a shutdown call returns that began while no added event had been passed
\* to flush_callback yet (and no add overlapped or followed it), every added
\* event has been passed to flush_callback exactly once, by shutdown itself.
C2_ShutdownDrains ==
    \A t \in Clients :
        (pc[t] = "sd_done" /\ sdPre[t] /\ ~lateAdd)
            => \A e \in Added : passCount[e] = 1 /\ sdPassCount[e] = 1

C4_RetryBufferBounded == Len(failed_batches) <= max_retry_batches

\* ---------------------------------------------------------------- C5
\* Threads that are at a flush_callback invocation.
AtCallback ==
    {t \in Clients : pc[t] = "sd_call"}
        \cup (IF pc[Timer] = "r_call" THEN {Timer} ELSE {})
        \cup {SenderTid(i) : i \in {j \in 1..Len(senders) : senders[j].st = "start"}}

\* C5: no thread invokes flush_callback while it holds the batcher lock.
C5_NoCallbackUnderLock == lock \notin AtCallback

\* ---------------------------------------------------------------- C6
\* A step in which the periodic loop flushes the live queue, drains the retry
\* buffer or passes a batch to flush_callback.
PeriodicDelivers ==
    \/ pc[Timer] = "t_sleep" /\ pc'[Timer] = "t_failed" /\ senders' # senders
    \/ pc[Timer] = "r_lock" /\ pc'[Timer] # "r_lock"
    \/ pc[Timer] = "r_call" /\ pc'[Timer] # "r_call"

\* C6: once shutdown has returned (and no shutdown call is still under way), the
\* periodic loop performs no further flush of the live queue and no further
\* retry.
C6_NoPeriodicAfterShutdown ==
    [][ShutdownOver => ~PeriodicDelivers]_vars

\* ---------------------------------------------------------------- C7
\* C7: shutdown called twice, in any interleaving of the two calls and with no add
\* overlapping or following them: no exception escapes, no event is passed to
\* flush_callback by both calls, and one of the two calls (the second) changes
\* no batcher state.
C7_SecondShutdownNoOp ==
    /\ crashed \cap Clients = {}
    /\ \A e \in Events : sdPassCount[e] <= 1
    /\ ~lateAdd => \E t \in Clients : sdChanged[t] = {}

\* ---------------------------------------------------------------- C8
\* The periodic thread and the delivery threads are scheduled fairly.
PeriodicFairness ==
    /\ WF_vars(PeriodicCheck)
    /\ WF_vars(PeriodicFlush)
    /\ WF_vars(PeriodicCheckFailed)
    /\ WF_vars(RetryDrain)
    /\ WF_vars(RetryCallback)
    /\ WF_vars(RetryRecord)
    /\ \A i \in 1..MaxEvents : WF_vars(SendCallback(i))

LiveSpec == Spec /\ PeriodicFairness

InQueue(e) == e \in SeqToSet(batch)

\* C8: an event waiting in the live queue is eventually passed to flush_callback,
\* with no explicit flush needed, unless shutdown is called.
C8_TimeTrigger ==
    \A e \in Events : InQueue(e) ~> (passCount[e] >= 1 \/ SdCalled)

\* A batch shorter than batch_size, dispatched by the periodic loop, has been
\* passed to flush_callback while the batcher is running.
C8_Witness ==
    /\ ~SdCalled
    /\ \E i \in 1..Len(senders) :
          /\ senders[i].origin = "periodic"
          /\ senders[i].st = "got"
          /\ Len(senders[i].events) < batch_size
          /\ \A e \in SeqToSet(senders[i].events) : passCount[e] = 1

\* ---------------------------------------------------------------- C9
\* C9: the add that brings the live queue to batch_size events leaves the queue
\* empty when its locked block ends and has started one delivery thread with
\* exactly those batch_size events, in order.
C9_SizeTrigger ==
    [][(nextEvent' = nextEvent + 1 /\ Len(batch) + 1 = batch_size)
          => /\ batch' = <<>>
             /\ lock' = NoThread
             /\ senders' = Append(senders, NewSender(Append(batch, nextEvent), "add"))
             /\ Len(Append(batch, nextEvent)) = batch_size]_vars

\* An add has just filled a queue of batch_size = 2 and its batch is dispatched.
C9_Witness ==
    /\ batch_size = 2
    /\ batch = <<>>
    /\ \E i \in 1..Len(senders) :
          /\ senders[i].origin = "add"
          /\ Len(senders[i].events) = batch_size
          /\ senders[i].st = "start"

\* ---------------------------------------------------------------- C10
\* Delivery thread i records a callback that returned False or raised.
SendFailureStep(i) ==
    /\ i \in 1..Len(senders)
    /\ senders[i].st = "got"
    /\ senders[i].res \in {"false", "raise"}
    /\ senders'[i].st = "done"

\* C10: when the callback of a delivery thread returns False or raises, no exception
\* escapes the thread, batches_failed grows by one, events_sent, batches_sent
\* and the live queue are unchanged, and below capacity exactly that batch is
\* appended to the retry buffer.
C10_FailedDispatch ==
    [][/\ \A i \in 1..MaxEvents : SenderTid(i) \notin crashed'
       /\ \A i \in 1..MaxEvents :
            SendFailureStep(i)
               => /\ stats'.batches_failed = stats.batches_failed + 1
                  /\ stats'.events_sent = stats.events_sent
                  /\ stats'.batches_sent = stats.batches_sent
                  /\ stats'.events_added = stats.events_added
                  /\ batch' = batch
                  /\ (Len(failed_batches) < max_retry_batches
                        => failed_batches' = Append(failed_batches, senders[i].events))]_vars

\* A failed dispatch has been recorded and its batch is in the retry buffer.
C10_Witness ==
    /\ stats.batches_failed >= 1
    /\ stats.events_sent = 0
    /\ failed_batches # <<>>
    /\ \E i \in 1..Len(senders) : senders[i].st = "done" /\ failed_batches[1] = senders[i].events

\* ---------------------------------------------------------------- C11
\* Position of batch b in the order of first failures.
FirstFailPos(b) == CHOOSE k \in 1..Len(firstFailed) : firstFailed[k] = b

\* C11: the batches in the retry buffer appear in the order of their first failure,
\* also after a retried batch failed again and was put back while other
\* dispatches failed during the retry pass.
C11_RetryKeepsOrder ==
    \A i, j \in 1..Len(failed_batches) :
        i < j => FirstFailPos(failed_batches[i]) < FirstFailPos(failed_batches[j])

\* ---------------------------------------------------------------- C12
\* add gives events their ids in the order it appends them under the lock, so a
\* contiguous slice of the appended sequence, in order, is a run of consecutive
\* ids of added events.
SliceOfAdded(b) ==
    /\ SeqToSet(b) \subseteq Added
    /\ \A k \in 1..(Len(b) - 1) : b[k + 1] = b[k] + 1

\* C12: every batch formed by a flush (and so every batch passed to flush_callback,
\* by a delivery thread, by a retry or by shutdown) is a contiguous slice of the
\* events in append order, in that order, and the batches formed by successive
\* flushes are pairwise disjoint and disjoint from what is still queued.
C12_ContiguousDisjoint ==
    /\ \A i \in 1..Len(senders) : SliceOfAdded(senders[i].events)
    /\ \A t \in Clients : SliceOfAdded(loc[t].events)
    /\ \A k \in 1..Len(failed_batches) : SliceOfAdded(failed_batches[k])
    /\ \A k \in 1..Len(loc[Timer].toRetry) : SliceOfAdded(loc[Timer].toRetry[k])
    /\ SliceOfAdded(batch)
    /\ \A i, j \in 1..Len(senders) :
          i # j => SeqToSet(senders[i].events) \cap SeqToSet(senders[j].events) = {}
    /\ \A i \in 1..Len(senders) :
          /\ SeqToSet(senders[i].events) \cap SeqToSet(batch) = {}
          /\ \A t \in Clients : SeqToSet(senders[i].events) \cap SeqToSet(loc[t].events) = {}
          /\ \A e \in SeqToSet(senders[i].events) : sdPassCount[e] = 0
    /\ \A t \in Clients :
          /\ SeqToSet(loc[t].events) \cap SeqToSet(batch) = {}
          /\ \A u \in Clients \ {t} : SeqToSet(loc[t].events) \cap SeqToSet(loc[u].events) = {}
          /\ \A e \in SeqToSet(loc[t].events) : sdPassCount[e] = 0
    /\ \A e \in Events : sdPassCount[e] <= 1 /\ (sdPassCount[e] = 1 => ~InQueue(e))

\* A batch of two events has been passed to flush_callback by a delivery thread,
\* or two batches formed by successive flushes have both been passed.
C12_Witness ==
    /\ \A e \in Events : passCount[e] >= 1
    /\ \/ \E i \in 1..Len(senders) : Len(senders[i].events) = 2 /\ senders[i].st = "got"
       \/ Len(senders) = 2 /\ senders[2].st = "got"

\* ---------------------------------------------------------------- C13
\* A step that writes the live queue, the retry buffer or the statistics.
WritesGuarded == batch' # batch \/ failed_batches' # failed_batches \/ stats' # stats

\* The step is taken by the thread that holds the lock across shutdown's block.
ByLockHolder == lock \in Clients /\ pc[lock] = "sd_call" /\ pc'[lock] # "sd_call"

\* C13: every write to the live queue, the retry buffer or the statistics is made
\* inside a `with self._lock` block: by a step that found the lock free and took
\* it for its block, or by the thread that holds the lock; no thread writes them
\* while another thread holds the lock.
C13_WritesUnderLock == [][WritesGuarded => (lock = NoThread \/ ByLockHolder)]_vars

\* Shutdown holds the lock, having written the live queue, while a delivery
\* thread waits to record its result and the periodic thread is about to flush.
C13_Witness ==
    /\ lock \in Clients
    /\ \E i \in 1..Len(senders) : senders[i].st = "got"
    /\ pc[Timer] = "t_sleep"
    /\ batch = <<>>
    /\ stats.events_added >= 1

\* ---------------------------------------------------------------- C14
\* C14: no thread holds the RateLimiter lock (or is acquiring it) while it holds
\* the batcher lock, with send_events as the batcher's flush_callback.
C14_NoNestedLocks ==
    \A t \in Callers :
        (rlLock = t \/ hpc[t] \in {"acq1", "acq2"}) => ~CallbackHoldsBatcherLock(callSite[t])

\* ---------------------------------------------------------------- C15
\* C15: starting from an empty window, each of the first max_requests acquire
\* calls made within window_seconds of the first returns 0 and is recorded, and
\* the (max_requests + 1)-th call within the same window returns a wait w with
\* 0 < w <= window_seconds and records no admission.
C15_AcquireWindow ==
    \A k \in 1..Len(acqLog) :
        (\A j \in 1..k : acqLog[j].at - acqLog[1].at < window_seconds)
            => IF k <= max_requests
               THEN acqLog[k].wait = 0 /\ acqLog[k].recorded
               ELSE /\ acqLog[k].wait > 0
                    /\ acqLog[k].wait <= window_seconds
                    /\ ~acqLog[k].recorded

\* max_requests = 2 and three acquire calls were made within one window, the
\* third one tick after the first.
C15_Witness ==
    /\ max_requests = 2
    /\ Len(acqLog) = 3
    /\ acqLog[3].at = acqLog[1].at + 1
    /\ acqLog[3].wait = window_seconds - 1

\* ---------------------------------------------------------------- C16
\* The step in which the wait_and_acquire of caller t returns.
WaitAndAcquireReturns(t) == hpc[t] \in {"in1", "in2"} /\ hpc'[t] = "post"

\* C16: whenever a wait_and_acquire call returns, the acquire it returns from has
\* recorded the caller's admission in the rate window.
C16_ReturnIsAdmitted ==
    [][\A t \in Callers :
          WaitAndAcquireReturns(t)
             => requests' = Append(Prune(requests, clock, window_seconds), clock)]_vars

\* ---------------------------------------------------------------- C17
\* Callers whose wait_and_acquire returned at a tick of [from, from + w).
ReturnsInSpan(from, w) ==
    LET ticks == {k \in 0..MaxClock : from <= k /\ k < from + w}
        sum[S \in SUBSET ticks] ==
            IF S = {} THEN 0 ELSE LET k == CHOOSE x \in S : TRUE IN returns[k] + sum[S \ {k}]
    IN sum[ticks]

\* C17: in any span of window_seconds at most max_requests callers return from
\* wait_and_acquire.
C17_RateBounded ==
    \A from \in 0..MaxClock : ReturnsInSpan(from, window_seconds) <= max_requests

\* ---------------------------------------------------------------- C18
\* The outcome r of the post is an HTTP response with a 2xx status whose JSON body
\* has status "ok".
Is2xxOk(r) == r.kind = "response" /\ r.status >= 200 /\ r.status < 300 /\ r.body = "ok"

\* C18: send_events returns True exactly when the response is 2xx with JSON status
\* "ok", and returns False (raising nothing) for every other outcome of the post.
C18_TrueIff2xxOk ==
    [][\A t \in SendCallers :
          (hpc[t] = "resp" /\ hpc'[t] = "done")
             => ret'[t] = (IF Is2xxOk(resp[t]) THEN "true" ELSE "false")]_vars

\* ---------------------------------------------------------------- C19
\* The resolution as claimed: calculator custom map, global custom map, the remote
\* cache whenever it is non-empty, the static table, else {0, 0}.
ClaimedPricing(model, cp, c, cache) ==
    IF HasKey(cp, model) THEN Lookup(cp, model)
    ELSE IF c.set /\ HasKey(c.custom_pricing, model) THEN Lookup(c.custom_pricing, model)
    ELSE IF cache # <<>> /\ TierHits(cache, model) THEN TierPricing(cache, model)
    ELSE IF TierHits(DEFAULT_PRICING, model) THEN TierPricing(DEFAULT_PRICING, model)
    ELSE ZeroPricing

\* C19: a lookup returns the first hit over the tiers in the claimed order; a
\* populated remote cache is consulted before the static table whatever the
\* global configuration is.
C19_TierOrder ==
    lastModel # NoModel
        => lastResult = ClaimedPricing(lastModel, custom_pricing, cfg, pricing_cache)

\* ---------------------------------------------------------------- C20
\* Entries whose key is a substring of the lower-cased model name, or has it as a
\* substring, in the order of the table.
BidirectionalHits(table, model) ==
    SelectSeq(table, LAMBDA e : IsSubstring(e.key, Lower(model)) \/ IsSubstring(Lower(model), e.key))

\* C20: in the remote tier and in the static tier, when no key equals the model
\* name, a key that is a substring of the name or has the name as a substring
\* is a hit of that tier.
C20_BidirectionalMatch ==
    LET m == lastModel
        dyn == GetPricingReturn(pricing_cache)
        dynHit == UsesDynamic(cfg) /\ (HasKey(dyn, m) \/ BidirectionalHits(dyn, m) # <<>>)
    IN (m # NoModel /\ ~HasKey(custom_pricing, m) /\ ~(cfg.set /\ HasKey(cfg.custom_pricing, m)))
          => /\ (UsesDynamic(cfg) /\ ~HasKey(dyn, m) /\ BidirectionalHits(dyn, m) # <<>>)
                   => lastResult = Head(BidirectionalHits(dyn, m)).price
             /\ (~dynHit /\ ~HasKey(DEFAULT_PRICING, m) /\ BidirectionalHits(DEFAULT_PRICING, m) # <<>>)
                   => lastResult = Head(BidirectionalHits(DEFAULT_PRICING, m)).price
\* ---------------------------------------------------------------- C21
\* `pricing['input']` and `pricing['output']` of calculate_cost find their keys.
HasRates(pricing) == {"input", "output"} \subseteq DOMAIN pricing

\* No tier of the lookup has the model: not as a key of either custom map, and
\* neither as a key nor through a substring hit of the dynamic or the static table.
AbsentEverywhere(model) ==
    /\ ~HasKey(custom_pricing, model)
    /\ ~(cfg.set /\ HasKey(cfg.custom_pricing, model))
    /\ ~(UsesDynamic(cfg) /\ TierHits(pricing_cache, model))
    /\ ~TierHits(DEFAULT_PRICING, model)

\* C21: the lookup is total: for every model and every state of the pricing cache
\* (also after a failed fetch) _get_model_pricing does not raise and returns an
\* entry with both an 'input' and an 'output' rate, and for a model absent from
\* every tier both rates are 0, so that calculate_cost returns 0.
C21_LookupTotal ==
    lastModel # NoModel =>
        /\ lastResult # Raised
        /\ HasRates(lastResult)
        /\ AbsentEverywhere(lastModel) => lastResult.input = 0 /\ lastResult.output = 0

\* ---------------------------------------------------------------- C22
\* The static table has the model as a key, or has a key that is a substring of
\* the model's name.
NamedByStatic(key, model) == key = model \/ IsSubstring(key, model)
OnlyInStatic(model) ==
    /\ \E k \in 1..Len(DEFAULT_PRICING) : NamedByStatic(DEFAULT_PRICING[k].key, model)
    /\ custom_pricing = <<>>
    /\ cfg.custom_pricing = <<>>
    /\ pricing_cache = <<>>

\* C22: with no custom pricing and an empty remote cache, the lookup of a model
\* that is a key of the static table, or has one of its keys as a substring,
\* returns that entry of the static table, whether or not a fetch was attempted
\* and failed.
C22_StaticFallback ==
    (lastModel # NoModel /\ OnlyInStatic(lastModel)) =>
        /\ lastResult.tier = "static"
        /\ NamedByStatic(lastResult.key, lastModel)

\* ---------------------------------------------------------------- C23
\* C23: once a request of _fetch_pricing has failed, no get_pricing call of a
\* lookup makes another request before the cool-down has elapsed, whether the
\* cache is empty or populated.
C23_CoolDown ==
    [][(lastModel' # NoModel /\ fetchResult'.made) =>
           (lastFail = NoFetch \/ pclock - lastFail >= CooldownTicks)]_vars

\* ---------------------------------------------------------------- C24
\* C24: a call whose request fails (get_pricing on an empty or stale cache, or
\* force_fetch) leaves the cache as it was before the call.
C24_FailedFetchKeepsCache ==
    [][(fetchResult'.made /\ ~fetchResult'.ok) => pricing_cache' = pricing_cache]_vars

\* ---------------------------------------------------------------- C25
\* A request of _fetch_pricing is in flight.
InFlight == \E u \in Fetchers : gpc[u] = "fetching"

\* C25: a get_pricing call made by a thread while another thread's request is in
\* flight does not wait for the request: the lock it needs is free, so that it
\* can return from the cache or the static table.
C25_NoWaitOnFetch ==
    [][\A t \in Fetchers :
          (gpc[t] \in {"idle", "ff_time"} /\ gpc'[t] = "gp_lock" /\ InFlight) =>
              mlock' = NoThread]_vars

\* ---------------------------------------------------------------- C26
\* The cache is older than the refresh interval.
Stale == last_fetch # NoFetch /\ pclock - last_fetch > FetchIntervalTicks
IssuesFetch(t) == gpc[t] = "gp_lock" /\ gpc'[t] = "fetching"
LeavesLock(t) == gpc[t] = "gp_lock" /\ gpc'[t] # "gp_lock"

\* C26: get_pricing makes the request only when the cache is empty or stale, and
\* never while another request is in flight; a populated cache that is not stale
\* is returned as it is, without a request.
C26_FetchOnlyWhenNeeded ==
    [][\A t \in Fetchers :
          /\ IssuesFetch(t) => (pricing_cache = <<>> \/ Stale) /\ ~InFlight
          /\ (LeavesLock(t) /\ pricing_cache # <<>> /\ ~Stale) =>
                 /\ ~IssuesFetch(t)
                 /\ gret'[t] = pricing_cache
                 /\ pricing_cache' = pricing_cache]_vars

\* A request is in flight that get_pricing made on a populated, stale cache, and
\* the other thread's last get_pricing returned that cache without a request.
C26_Witness ==
    \E t, u \in Fetchers :
        /\ gpc[t] = "fetching"
        /\ pricing_cache # <<>> /\ Stale
        /\ gret[u] = pricing_cache

\* ---------------------------------------------------------------- C28
\* A cost in units of 1e-8 USD is the exact cost, in units of 1e-9 USD, rounded
\* to 8 decimal places: no other multiple of 1e-8 is nearer.
IsRounded8(cost, exact) == 10 * cost - exact <= 5 /\ exact - 10 * cost <= 5

\* C28: calculate_cost returns (input_tokens/1000)*rate.input +
\* (output_tokens/1000)*rate.output rounded to 8 decimal places: 0.09 for gpt-4
\* with 1000 and 1000 tokens, 0 for zero tokens with any model, and not 0 for
\* the smallest static rate (0.00005) with one token.
C28_CostRounded8 ==
    costArgs.fn = "calculate_cost" =>
        LET rate == costArgs.pricing
            exact == costArgs.input_tokens * rate.input + costArgs.output_tokens * rate.output
        IN /\ IsRounded8(costOut.total_cost, exact)
           /\ (rate.model = "gpt-4" /\ costArgs.input_tokens = 1000 /\ costArgs.output_tokens = 1000)
                 => costOut.total_cost = 9000000
           /\ (costArgs.input_tokens = 0 /\ costArgs.output_tokens = 0) => costOut.total_cost = 0
           /\ (rate.input = 50 /\ costArgs.input_tokens = 1) => costOut.total_cost # 0

\* calculate_cost has returned 0.00000005 for one input token at the smallest
\* static rate.
C28_Witness ==
    /\ costArgs.fn = "calculate_cost"
    /\ costArgs.pricing.model = "llama-3.1-8b-instant"
    /\ costArgs.input_tokens = 1 /\ costArgs.output_tokens = 0
    /\ costOut.total_cost = 5

\* ---------------------------------------------------------------- C29
\* C29: get_cost_breakdown returns a total_cost equal to input_cost + output_cost,
\* each of the three rounded to 8 decimal places, for every pricing entry, also
\* with rates that are not multiples of 0.00001.
C29_BreakdownAddsUp ==
    costArgs.fn = "get_cost_breakdown" =>
        costOut.total_cost = costOut.input_cost + costOut.output_cost

\* ---------------------------------------------------------------- C27
Keys(table) == {table[k].key : k \in 1..Len(table)}
RawPrices(pricing_data, key) ==
    pricing_data[CHOOSE k \in 1..Len(pricing_data) : pricing_data[k].key = key].prices

\* C27: after a 200 answer the cache has exactly the keys of the answer's map (a
\* key of the previous cache that the answer lacks is gone), each entry has the
\* answer's rates with 0 for an absent field, and the last-fetch time is the
\* time of the fetch.
C27_FetchReplacesCache ==
    [][(fetchResult'.made /\ fetchResult'.ok) =>
           /\ Keys(pricing_cache') = Keys(fetchResult'.pricing)
           /\ \A k \in 1..Len(pricing_cache') :
                 LET e == pricing_cache'[k]
                     prices == RawPrices(fetchResult'.pricing, e.key)
                 IN /\ HasRates(e.price)
                    /\ e.price.input = IF "input" \in DOMAIN prices THEN prices.input ELSE 0
                    /\ e.price.output = IF "output" \in DOMAIN prices THEN prices.output ELSE 0
           /\ last_fetch' = pclock]_vars

\* A 200 answer has just replaced a cache that had a key the answer lacks, and
\* an entry of the answer had no 'output' field.
C27_Witness ==
    /\ fetchResult.made /\ fetchResult.ok
    /\ Keys(fetchResult.before) \ Keys(fetchResult.pricing) # {}
    /\ \E k \in 1..Len(fetchResult.pricing) : "output" \notin DOMAIN fetchResult.pricing[k].prices
    /\ \E k \in 1..Len(pricing_cache) : pricing_cache[k].price.output = 0
    /\ last_fetch = pclock

\* ---------------------------------------------------------------- C30
\* LocalBatcher is a HybridBatcher whose flush_callback, _default_flush, extends
\* _all_events with the batch and returns True: get_all_events() has the events
\* passed to the callback so far.
InAllEvents(cnt, e) == cnt[e] >= 1

\* C30: LocalBatcher: when flush() returns, get_all_events() has every event
\* added before the flush call, also those the size trigger dispatched earlier,
\* whatever the scheduling of the delivery threads.
C30_FlushDelivers ==
    [][(cbMode = "always_true" /\ \E t \in Clients : Flush(t)) =>
           \A e \in Added : InAllEvents(passCount', e)]_vars

\* ---------------------------------------------------------------- C31 to C34
\* C31: for any interleaving of metadata(...) scopes entered on different
\* threads, the key of a scope is in the global metadata, with the scope's
\* value, for the whole time that scope is active, and once every scope has
\* exited the global metadata is what it was before any scope was entered.
NoMetadataScope == \A t \in Scopers : scopes[t].meta \in {"out", "noop"}
C31_ScopesDoNotLeak ==
    /\ \A t \in Scopers :
          scopes[t].meta = "in" =>
              tracker_config.global_metadata[scopes[t].key] = ScopeValue(t)
    /\ (tracker_config.set /\ NoMetadataScope) => tracker_config.global_metadata = meta0

\* C32: inside an agent(name) scope on an initialised tracker the configuration
\* get_config() returns has default_agent_name equal to name.
C32_AgentScopeSetsDefault ==
    \A t \in Scopers :
        scopes[t].agent = "in" => tracker_config.default_agent_name = scopes[t].name

\* C33: a tracked call made inside an agent(name) scope without the
\* _agentcost_agent argument passes an event with agent_name = name to the
\* event callback, for each of the four entry points; in general the agent
\* name of the event is the explicit argument, else the name of the scope,
\* else the configured default, else "default".
ClaimedAgentName(call) ==
    IF call.explicit # NoName THEN call.explicit
    ELSE IF call.ctx # NoName THEN call.ctx
    ELSE IF tracker_config.set THEN tracker_config.default_agent_name
    ELSE "default"
C33_EventCarriesScopeName ==
    \A i \in 1..Len(lastCall.events) :
        lastCall.events[i].agent_name = ClaimedAgentName(lastCall)

\* C34: a tracked invoke call with tracking enabled gives the application the
\* response of the wrapped call when it succeeds and its exception when it
\* fails, and passes one event to the event callback in both cases, also when
\* the event callback raises.
C34_InvokeTransparent ==
    (lastCall.entry = "invoke" /\ lastCall.enabled) =>
        /\ lastCall.result = WrappedResult(lastCall.wrapped)
        /\ Len(lastCall.events) = 1

\* ---------------------------------------------------------------- C35
\* C35: one send_events call makes at most 1 + max_retries HTTP attempts; an
\* attempt is retried only when its answer has a status in {429, 500, 502, 503,
\* 504} or it failed at the connection level, so that an answer with another
\* status ends the call after that attempt; and the rate limiter is consulted
\* before the first attempt only, not between attempts.
InLimiter(t) == hpc[t] \in {"acq1", "in1", "sleep", "acq2", "in2"}
C35_AttemptsAndRetries ==
    \A t \in SendCallers :
        /\ attempts[t] <= 1 + max_retries
        /\ lastRetried[t] # NoResponse =>
              \/ lastRetried[t].kind \in {"timeout", "connection_error"}
              \/ lastRetried[t].status \in {429, 500, 502, 503, 504}
        /\ attempts[t] > 0 => ~InLimiter(t)

\* ---------------------------------------------------------------- C36
\* The batches for which flush_callback has returned True while the statistics
\* lines that follow the call have not run yet: those of delivery threads and
\* that of the retry pass (shutdown's call and lines are one locked block).
UncountedTrue ==
    {[i |-> i, events |-> senders[i].events] :
         i \in {j \in 1..Len(senders) : senders[j].st = "got" /\ senders[j].res = "true"}}
        \cup (IF pc[Timer] = "r_lock2" /\ loc[Timer].res = "true"
              THEN {[i |-> 0, events |-> Head(loc[Timer].toRetry)]}
              ELSE {})
RECURSIVE SumLen(_)
SumLen(S) ==
    IF S = {} THEN 0
    ELSE LET x == CHOOSE y \in S : TRUE IN Len(x.events) + SumLen(S \ {x})

\* C36: events_sent is the number of events in the batches for which
\* flush_callback returned True, and batches_sent the number of those batches
\* (less the ones whose statistics lines are still to run); a batch whose
\* callback returned False is never counted, whether it was dispatched
\* asynchronously, retried, or flushed by shutdown.
C36_SentCountsTrueBatches ==
    /\ stats.events_sent + SumLen(UncountedTrue) = cbTrue.events
    /\ stats.batches_sent + Cardinality(UncountedTrue) = cbTrue.batches

\* ---------------------------------------------------------------- C37
\* A step of a shutdown call.
ShutdownStep ==
    \E t \in Clients :
        \/ ShutdownCall(t) \/ ShutdownSet(t) \/ ShutdownDrain(t)
        \/ ShutdownCallback(t) \/ ShutdownJoin(t)

\* C37: shutdown leaves the retry buffer as it is: no step of a shutdown call
\* changes the retry buffer, and what shutdown passes to flush_callback is the
\* batch it took from the live queue, once, so that neither the batches waiting
\* in the retry buffer nor the batch whose final flush failed are passed to
\* flush_callback (again) by shutdown.
C37_ShutdownKeepsRetryBuffer ==
    [][ShutdownStep =>
          /\ failed_batches' = failed_batches
          /\ \A e \in Events :
                sdPassCount'[e] # sdPassCount[e] =>
                    /\ sdPassCount[e] = 0
                    /\ \E t \in Clients : pc[t] = "sd_call" /\ e \in SeqToSet(loc[t].events)
                    /\ \A k \in 1..Len(failed_batches') : e \notin SeqToSet(failed_batches'[k])]_vars

\* A shutdown call has returned whose final flush failed, with a batch waiting
\* in the retry buffer.
C37_Witness ==
    /\ \E t \in Clients : pc[t] = "sd_done"
    /\ failed_batches # <<>>
    /\ \E e \in Events : sdPassCount[e] = 1 /\ cbTrue.events < stats.events_sent

\* ---------------------------------------------------------------- C38
\* C38: whenever no thread holds the batcher lock the live queue holds fewer
\* than batch_size events, before and after shutdown.
C38_QueueBelowBatchSize ==
    (batch_size >= 1 /\ LockFree) => Len(batch) < batch_size

\* An event added after shutdown waits in the live queue, one short of
\* batch_size.
C38_Witness ==
    /\ LockFree
    /\ ~running
    /\ batch_size = 2
    /\ Len(batch) = batch_size - 1

\* ---------------------------------------------------------------- C39
\* The batches that are about to be, or have been, given to flush_callback, and
\* those of the retry buffer.
HandedBatches ==
    {senders[i].events : i \in {j \in 1..Len(senders) : senders[j].st # "done"}}
        \cup {loc[t].events : t \in {u \in Clients : pc[u] = "sd_call"}}
        \cup SeqToSet(loc[Timer].toRetry)
        \cup SeqToSet(failed_batches)

\* A step that finds the live queue empty: a flush, a tick of the periodic
\* loop, or the locked block of shutdown.
EmptyQueueStep ==
    /\ batch = <<>>
    /\ \/ \E t \in Clients : Flush(t)
       \/ PeriodicFlush
       \/ \E t \in Clients : ShutdownDrain(t)

\* A step of flush, of a tick of the periodic loop (its flush and its retry
\* of the retry buffer) or of shutdown, taken while the live queue is empty.
EmptyQueueCallStep ==
    /\ batch = <<>>
    /\ \/ \E t \in Clients : Flush(t)
       \/ PeriodicFlush
       \/ PeriodicCheckFailed
       \/ RetryDrain
       \/ RetryCallback
       \/ RetryRecord
       \/ \E t \in Clients : ShutdownSet(t)
       \/ \E t \in Clients : ShutdownDrain(t)

\* C39, as stated: flush_callback is never invoked with an empty batch, no empty
\* batch enters the retry buffer, and a flush, a periodic tick and a shutdown
\* with an empty live queue invoke the callback zero times and change no
\* batcher state (queue, retry buffer, running flag, statistics).
C39_EmptyQueueChangesNothing ==
    /\ [](<<>> \notin HandedBatches)
    /\ [][EmptyQueueCallStep =>
             UNCHANGED <<batch, failed_batches, running, stats, passCount>>]_vars

\* C39, amended: flush_callback is never invoked with an empty batch, and no
\* empty batch enters the retry buffer; a flush, the locked block of a periodic
\* tick and the final flush of shutdown that find the live queue empty start no
\* delivery, invoke the callback zero times and leave the queue, the retry
\* buffer and the statistics as they are.
C39_NoEmptyBatch ==
    /\ [](<<>> \notin HandedBatches)
    /\ [][EmptyQueueStep =>
             /\ UNCHANGED <<batch, failed_batches, stats, senders, lock, passCount>>
             /\ \A t \in Clients : pc'[t] # "sd_call"]_vars

\* The locked block of a shutdown call found the live queue empty, after a
\* batch had been dispatched: shutdown has passed nothing to the callback.
C39_Witness ==
    /\ batch = <<>>
    /\ senders # <<>>
    /\ \E t \in Clients : pc[t] = "sd_join"
    /\ \A e \in Events : sdPassCount[e] = 0

\* ---------------------------------------------------------------- C40
\* C40: whenever the lock of the pricing manager is free the in-flight flag is
\* false, so that a get_pricing call, which reads the flag with the lock held,
\* never finds it set; the flag changes only in steps of the locked block of
\* get_pricing (it is set when the block takes the lock for a request and
\* cleared by the step that releases it).
C40_FlagFalseWhenLockFree ==
    /\ [](mlock = NoThread => ~fetch_in_progress)
    /\ [][/\ \A t \in Fetchers :
               (gpc[t] = "gp_lock" /\ gpc'[t] # "gp_lock") => ~fetch_in_progress
          /\ fetch_in_progress' # fetch_in_progress =>
                 \E t \in Fetchers :
                    \/ gpc[t] = "gp_lock" /\ gpc'[t] = "fetching" /\ mlock' = t
                    \/ gpc[t] = "fetching" /\ gpc'[t] = "idle" /\ mlock = t]_vars

\* A request has been made and handled, the lock is free again, and a thread
\* is about to enter the locked block of get_pricing while force_fetch of the
\* other thread has emptied the cache.
C40_Witness ==
    /\ mlock = NoThread
    /\ resetAt # {}
    /\ pricing_cache = <<>>
    /\ \E t \in Fetchers : gpc[t] = "gp_lock"
    /\ \E t \in Fetchers : gpc[t] = "ff_time"

====
